---- MODULE Spec2Model ----
(***************************************************************************)
(* claude-redditor: the classification-and-cache pipeline                  *)
(* (PostClassifier.classify_posts, CachedAnalysisEngine.analyze_with_cache,*)
(* Repository) and the digest consumption protocol (DigestGenerator).      *)
(*                                                                         *)
(* Confidences are kept in tenths (0.7 is 7).  Timestamps are day numbers. *)
(***************************************************************************)
EXTENDS Integers, Sequences, FiniteSets, TLC

VARIABLES
    posts_tbl,     \* table posts: set of rows
    cls_tbl,       \* table classifications: set of rows
    next_id,       \* auto-increment counter of classifications.id
    day,           \* the clock: datetime.now() / NOW(), as a day number
    batch_size,    \* settings.default_batch_size
    scan,          \* scan[r]: the local state of one analyze_with_cache run
    dig,           \* the local state of the digest invocation
    files,         \* output files written so far (paths)
    charged,       \* history: (post, source, project) the LLM answered validly
    recharged,     \* history: (post, source, project) sent again after that
    produced,      \* history: what classify_posts returned for each saved key
    digests_done,  \* history: the successfully generated digests, in order
    nscans,        \* number of analyze_with_cache calls started
    ndigests,      \* number of digest invocations started
    ncalls,        \* number of direct Repository calls made
    last_select,   \* result of the last direct selection query
    call           \* a call of a pure function: its input and its result

vars == <<posts_tbl, cls_tbl, next_id, day, batch_size, scan, dig, files,
          charged, recharged, produced, digests_done, nscans, ndigests,
          ncalls, last_select, call>>

----------------------------------------------------------------------------
(* Bounds *)

MaxScans == 2
MaxDigests == 2
MaxCalls == 3
MaxDay == 2

\* Optional values: None, or Some(x)
None == <<>>
Some(x) == <<x>>

\* No pure function is being called.
NoCall == [fn |-> "none"]

Runs == {1, 2}
Projects == {"claudeia", "other"}
Sources == {"reddit", "hackernews"}
BatchSizes == {1, 2}
Limits == {1, 2}

\* The posts the content adapters can return (ids are source-prefixed).
Catalogue ==
    { [id |-> "reddit_a", source |-> "reddit", score |-> 5],
      [id |-> "reddit_b", source |-> "reddit", score |-> 5],
      [id |-> "hn_c", source |-> "hackernews", score |-> 8] }

PostIds == {p.id : p \in Catalogue}
PostOf(pid) == CHOOSE p \in Catalogue : p.id = pid

\* Listings an adapter can return for one source: non-empty, ids distinct.
Listings(src) ==
    LET ids == {p.id : p \in {q \in Catalogue : q.source = src}}
    IN  {s \in UNION {[1..n -> ids] : n \in 1..Cardinality(ids)} :
            \A i, j \in DOMAIN s : i # j => s[i] # s[j]}

----------------------------------------------------------------------------
(* Sequence helpers *)

Range(s) == {s[i] : i \in DOMAIN s}

RECURSIVE SeqFilterIds(_, _)
\* [x for x in s if x not in ids]
SeqFilterIds(s, ids) ==
    IF s = <<>> THEN <<>>
    ELSE IF Head(s) \in ids THEN SeqFilterIds(Tail(s), ids)
         ELSE <<Head(s)>> \o SeqFilterIds(Tail(s), ids)

Min(a, b) == IF a < b THEN a ELSE b

----------------------------------------------------------------------------
(* core/enums.py, classifier.py: taxonomy and category correction *)

CategoryEnum ==
    {"technical", "troubleshooting", "research_verified", "mystical",
     "unverified_claim", "engagement_bait", "community", "meme", "outlier",
     "unrelated"}

SignalCategories == {"technical", "troubleshooting", "research_verified"}

CATEGORY_CORRECTIONS ==
    [k \in {"discussion", "news", "signal", "noise", "meta", "question",
            "showcase", "tutorial", "resource"} |->
        CASE k = "discussion" -> "community"
          [] k = "news" -> "technical"
          [] k = "signal" -> "technical"
          [] k = "noise" -> "unverified_claim"
          [] k = "meta" -> "community"
          [] k = "question" -> "community"
          [] k = "showcase" -> "technical"
          [] k = "tutorial" -> "technical"
          [] k = "resource" -> "technical"]

\* What the LLM can say about one post (one item of the JSON array); the
\* optional keys may be absent.
ItemTemplates ==
    { [category |-> "news", confidence |-> 9, reasoning |-> "r1",
       topic_tags |-> <<"agents">>, format_tag |-> Some("guide")],
      [category |-> "unrelated", confidence |-> 9, red_flags |-> <<"no_source">>],
      [category |-> "spam", confidence |-> 9] }

\* dict.get(key, default)
Get(d, key, default) == IF key \in DOMAIN d THEN d[key] ELSE default

Dropped == [dropped |-> TRUE]

\* Mutant: the label is stored as it came, without CategoryEnum(category).
ParseItem_KeepsLabel(data) ==
    [post_id |-> data.post_id,
     category |-> data.category,
     confidence |-> data.confidence,
     red_flags |-> Get(data, "red_flags", <<>>),
     reasoning |-> Get(data, "reasoning", ""),
     topic_tags |-> Get(data, "topic_tags", <<>>),
     format_tag |-> Get(data, "format_tag", None),
     tier_tags |-> None,
     tier_clusters |-> <<>>,
     tier_scoring |-> None]

\* _classify_batch, the body of the per-item loop: a Classification, or
\* Dropped when CategoryEnum(category) raises ValueError.
ParseItem(data) ==
    LET category == IF data.category \in DOMAIN CATEGORY_CORRECTIONS
                    THEN CATEGORY_CORRECTIONS[data.category]
                    ELSE data.category
    IN  IF category \notin CategoryEnum THEN Dropped
        ELSE [post_id |-> data.post_id,
              category |-> category,
              confidence |-> data.confidence,
              red_flags |-> Get(data, "red_flags", <<>>),
              reasoning |-> Get(data, "reasoning", ""),
              topic_tags |-> Get(data, "topic_tags", <<>>),
              format_tag |-> Get(data, "format_tag", None),
              tier_tags |-> None,
              tier_clusters |-> <<>>,
              tier_scoring |-> None]

RECURSIVE ParseItems(_)
\* _classify_batch: the Classification list built from the parsed array
ParseItems(items) ==
    IF items = <<>> THEN <<>>
    ELSE LET c == ParseItem(Head(items))
         IN  (IF c = Dropped THEN <<>> ELSE <<c>>) \o ParseItems(Tail(items))

\* JSON values of a response item, by type: a key that is absent, null, a
\* list, a string, a number.
Missing == [t |-> "missing"]
JNull == [t |-> "null"]
JList == [t |-> "list"]
JStr(x) == [t |-> "str", s |-> x]
JNum(x) == [t |-> "num", n |-> x]

\* An element of the response array that is not an object (a string).
NotAnObject ==
    [obj |-> FALSE, post_id |-> Missing, category |-> Missing,
     confidence |-> Missing]

\* float(x) of a string: the value in tenths, or None for ValueError.
FloatOfStr(x) == IF x = "0.9" THEN Some(9) ELSE None

\* The elements a response array can hold.
RawCategories ==
    {Missing, JNull, JList, JStr("technical"), JStr("unrelated"),
     JStr("news"), JStr("spam")}
RawConfidences == {Missing, JNull, JStr("high"), JStr("0.9"), JNum(9)}
RawItems(pid) ==
    {NotAnObject} \cup
    [obj : {TRUE}, post_id : {Missing, JStr(pid)}, category : RawCategories,
     confidence : RawConfidences]

\* _classify_batch, the body of the per-item loop on any element: the
\* Classification, "dropped" for KeyError or ValueError (caught), or
\* "type_error" for TypeError (not caught by the loop).
ClassifyItem(raw) ==
    LET dropped == [kind |-> "dropped"]
        type_error == [kind |-> "type_error"]
        conf == IF raw.confidence.t = "num" THEN Some(raw.confidence.n)
                ELSE IF raw.confidence.t = "str"
                     THEN FloatOfStr(raw.confidence.s)
                     ELSE None
    IN  IF ~raw.obj THEN type_error                  \* data["category"]
        ELSE IF raw.category.t = "missing" THEN dropped
        ELSE IF raw.category.t = "list" THEN type_error  \* category in dict
        ELSE IF raw.post_id.t = "missing" THEN dropped   \* data["post_id"]
        ELSE IF raw.category.t # "str" THEN dropped      \* CategoryEnum(None)
        ELSE IF ParseItem([post_id |-> raw.post_id.s,
                           category |-> raw.category.s,
                           confidence |-> 0]) = Dropped THEN dropped
        ELSE IF raw.confidence.t = "missing" THEN dropped
        ELSE IF raw.confidence.t \in {"null", "list"} THEN type_error
        ELSE IF conf = None THEN dropped                 \* float("high")
        ELSE [kind |-> "ok",
              cls |-> ParseItem([post_id |-> raw.post_id.s,
                                 category |-> raw.category.s,
                                 confidence |-> conf[1]])]

RECURSIVE ClassifyItems(_, _)
\* _classify_batch, the per-item loop: the list built so far, until the end
\* of the array or the first TypeError, which leaves the loop and the call.
ClassifyItems(items, acc) ==
    IF items = <<>> THEN [raised |-> FALSE, cls |-> acc]
    ELSE LET c == ClassifyItem(Head(items))
         IN  IF c.kind = "type_error" THEN [raised |-> TRUE, cls |-> <<>>]
             ELSE ClassifyItems(Tail(items),
                                IF c.kind = "ok" THEN Append(acc, c.cls)
                                ELSE acc)

\* The arrays the LLM can return for a batch: one item per post, in order.
Responses(batch) ==
    {[i \in DOMAIN batch |-> [post_id |-> batch[i]] @@ t[i]] :
        t \in [DOMAIN batch -> ItemTemplates]}

----------------------------------------------------------------------------
(* db/repository.py: the cache store *)

ModelVersion == "claude-haiku-4-5-20251001"

\* The unique key of table classifications.
UniqueKey(row) == <<row.post_id, row.source, row.project>>

\* Classification.to_dict() of the stored row.
RowToDict(row) ==
    [post_id |-> row.post_id, source |-> row.source, project |-> row.project,
     category |-> row.category, confidence |-> row.confidence,
     red_flags |-> row.red_flags, reasoning |-> row.reasoning,
     topic_tags |-> row.topic_tags, format_tag |-> row.format_tag,
     tier_tags |-> row.tier_tags, tier_clusters |-> row.tier_clusters,
     tier_scoring |-> row.tier_scoring, model_version |-> row.model_version,
     classified_at |-> row.classified_at,
     sent_in_digest_at |-> row.sent_in_digest_at]

RECURSIVE SortById(_)
\* rows in primary-key order
SortById(rows) ==
    IF rows = {} THEN <<>>
    ELSE LET first == CHOOSE r \in rows : \A q \in rows : r.id <= q.id
         IN  <<first>> \o SortById(rows \ {first})

\* get_cached_classifications: classifications joined with posts, filtered
\* by post id, source and project.
GetCachedClassifications(ptbl, ctbl, post_ids, source, project) ==
    IF post_ids = <<>> THEN <<>>
    ELSE LET hits == {r \in ctbl :
                        /\ \E p \in ptbl : p.id = r.post_id
                        /\ r.post_id \in Range(post_ids)
                        /\ r.source = source
                        /\ r.project = project}
             sorted == SortById(hits)
         IN  [i \in DOMAIN sorted |-> RowToDict(sorted[i])]

\* The values of one INSERT statement of save_classifications.
InsertValues(cls_data, source, model_version, project) ==
    [post_id |-> cls_data.post_id,
     source |-> source,
     project |-> project,
     category |-> cls_data.category,
     confidence |-> cls_data.confidence,
     red_flags |-> Get(cls_data, "red_flags", <<>>),
     reasoning |-> Get(cls_data, "reasoning", ""),
     model_version |-> model_version,
     topic_tags |-> Get(cls_data, "topic_tags", <<>>),
     format_tag |-> Get(cls_data, "format_tag", None)]

\* Mutant: the update replaces the row, as REPLACE INTO would.
OnDuplicateKeyUpdate_ClearsSent(row, vals, now) ==
    [row EXCEPT !.category = vals.category,
                !.confidence = vals.confidence,
                !.red_flags = vals.red_flags,
                !.reasoning = vals.reasoning,
                !.model_version = vals.model_version,
                !.topic_tags = vals.topic_tags,
                !.format_tag = vals.format_tag,
                !.classified_at = now,
                !.sent_in_digest_at = None]

\* INSERT ... ON DUPLICATE KEY UPDATE: the columns the update assigns.
OnDuplicateKeyUpdate(row, vals, now) ==
    [row EXCEPT !.source = vals.source,
                !.project = vals.project,
                !.category = vals.category,
                !.confidence = vals.confidence,
                !.red_flags = vals.red_flags,
                !.reasoning = vals.reasoning,
                !.model_version = vals.model_version,
                !.topic_tags = vals.topic_tags,
                !.format_tag = vals.format_tag,
                !.classified_at = now]

\* A freshly inserted row: the columns not in the INSERT take their defaults.
InsertedRow(vals, id, now) ==
    vals @@ [id |-> id, tier_tags |-> None, tier_clusters |-> <<>>,
             tier_scoring |-> None, classified_at |-> now,
             sent_in_digest_at |-> None]

\* Mutant: a plain INSERT, without the ON DUPLICATE KEY clause taking effect.
Upsert_AlwaysInserts(store, vals, now) ==
    [tbl |-> store.tbl \cup {InsertedRow(vals, store.next_id, now)},
     next_id |-> store.next_id + 1]

\* One upsert.  The store is [tbl, next_id].
Upsert(store, vals, now) ==
    LET hit == {r \in store.tbl : UniqueKey(r) = UniqueKey(vals)}
    IN  IF hit = {}
        THEN [tbl |-> store.tbl \cup {InsertedRow(vals, store.next_id, now)},
              next_id |-> store.next_id + 1]
        ELSE [tbl |-> (store.tbl \ hit)
                        \cup {OnDuplicateKeyUpdate(r, vals, now) : r \in hit},
              next_id |-> store.next_id]

RECURSIVE SaveClassifications(_, _, _, _, _, _)
\* save_classifications: one upsert per element, in one transaction.
SaveClassifications(store, classifications, source, model_version, project, now) ==
    IF classifications = <<>> THEN store
    ELSE SaveClassifications(
             Upsert(store,
                    InsertValues(Head(classifications), source, model_version,
                                 project),
                    now),
             Tail(classifications), source, model_version, project, now)

\* save_posts, the SELECTs: the posts of the list found missing.  The
\* session does not autoflush, so an id added earlier in the same list is
\* still found missing.
SavePostsToAdd(ptbl, posts) ==
    SeqFilterIds(posts, {p.id : p \in ptbl})

\* save_posts, the INSERTs at commit: TRUE when a primary key collides.
SavePostsConflict(ptbl, to_add) ==
    \/ \E i \in DOMAIN to_add : \E p \in ptbl : p.id = to_add[i]
    \/ \E i, j \in DOMAIN to_add : i # j /\ to_add[i] = to_add[j]

\* save_posts, the rows added.
SavePostsRows(to_add, source, project) ==
    {[id |-> pid, source |-> source, project |-> project,
      score |-> PostOf(pid).score] : pid \in Range(to_add)}

\* The eligible rows of get_signal_posts_for_digest, each with its post.
SignalCandidates(ptbl, ctbl, project, min_confidence) ==
    {[post |-> p, classification |-> RowToDict(c)] :
        <<p, c>> \in {pc \in ptbl \X ctbl :
            /\ pc[1].id = pc[2].post_id
            /\ pc[2].project = project
            /\ pc[2].category \in {"technical", "troubleshooting",
                                   "research_verified"}
            /\ pc[2].sent_in_digest_at = None
            /\ pc[2].confidence >= min_confidence}}

\* Mutant: ORDER BY posts.score DESC only.
OrderedBefore_ScoreOnly(a, b) == a.post.score >= b.post.score

\* ORDER BY posts.score DESC, classifications.confidence DESC
OrderedBefore(a, b) ==
    \/ a.post.score > b.post.score
    \/ /\ a.post.score = b.post.score
       /\ a.classification.confidence >= b.classification.confidence

\* get_signal_posts_for_digest: every list the query can return (rows that
\* tie in the ORDER BY come in any order), cut at LIMIT.
GetSignalPostsForDigest(ptbl, ctbl, project, limit, min_confidence) ==
    LET cand == SignalCandidates(ptbl, ctbl, project, min_confidence)
        n == Cardinality(cand)
        orders == {s \in [1..n -> cand] :
                     /\ \A i, j \in 1..n : i # j => s[i] # s[j]
                     /\ \A i, j \in 1..n : i < j => OrderedBefore(s[i], s[j])}
    IN  {SubSeq(s, 1, Min(limit, n)) : s \in orders}

\* Mutant: the UPDATE matches the first id only.
MarkPostsAsSentInDigest_FirstOnly(ctbl, post_ids, project, now) ==
    IF post_ids = <<>> THEN ctbl
    ELSE {IF r.post_id = post_ids[1] /\ r.project = project
          THEN [r EXCEPT !.sent_in_digest_at = Some(now)]
          ELSE r : r \in ctbl}

\* Mutant: the UPDATE has no condition on the project.
MarkPostsAsSentInDigest_AnyProject(ctbl, post_ids, project, now) ==
    IF post_ids = <<>> THEN ctbl
    ELSE {IF r.post_id \in Range(post_ids)
          THEN [r EXCEPT !.sent_in_digest_at = Some(now)]
          ELSE r : r \in ctbl}

\* mark_posts_as_sent_in_digest: UPDATE ... SET sent_in_digest_at = NOW()
MarkPostsAsSentInDigest(ctbl, post_ids, project, now) ==
    IF post_ids = <<>> THEN ctbl
    ELSE {IF r.post_id \in Range(post_ids) /\ r.project = project
          THEN [r EXCEPT !.sent_in_digest_at = Some(now)]
          ELSE r : r \in ctbl}

DefaultMinConfidence == 7

----------------------------------------------------------------------------
(* analyzer.py, classifier.py: one analyze_with_cache run *)

\* Projects that have a prompts/tagging.md (the tier system is optional).
HasTagging(project) == project = "claudeia"

\* What a tier response says about one post.
TierItem(pid) ==
    [post_id |-> pid, tier_tags |-> Some("tiers"), clusters |-> <<"c1">>,
     scoring |-> Some(7)]

\* The arrays the LLM can return for a tier batch: an item for every post,
\* no item for the first post, or one more item with an id that was not sent.
TierResponses(batch) ==
    LET full == [k \in DOMAIN batch |-> TierItem(batch[k])]
    IN  {full, Tail(full), Append(full, TierItem("not_sent"))}

RestPcs == {"idle", "done", "raised"}

IdleScan ==
    [pc |-> "idle", source |-> "reddit", project |-> "claudeia",
     posts |-> <<>>, keys_at_start |-> {}, posts_at_start |-> {},
     cls_at_start |-> {}, cached |-> <<>>,
     to_classify |-> <<>>, i |-> 0, j |-> 0, all_cls |-> <<>>,
     tier_posts |-> <<>>, ti |-> 0, primary_cls |-> <<>>, tier_log |-> <<>>, to_add |-> <<>>, reqs |-> <<>>,
     result |-> <<>>,
     stats |-> [total |-> 0, cached |-> 0, new |-> 0,
                cache_hit_rate |-> <<0, 1>>]]

\* analyze_with_cache: the Classification built from a cached row.
CachedToClassification(data) ==
    [post_id |-> data.post_id,
     category |-> data.category,
     confidence |-> data.confidence,
     red_flags |-> data.red_flags,
     reasoning |-> data.reasoning,
     topic_tags |-> <<>>,
     format_tag |-> None,
     tier_tags |-> None,
     tier_clusters |-> <<>>,
     tier_scoring |-> None]

\* analyze_with_cache: the dict saved for a new Classification.
ToSaveDict(c) ==
    [post_id |-> c.post_id,
     category |-> c.category,
     confidence |-> c.confidence,
     red_flags |-> c.red_flags,
     reasoning |-> c.reasoning]

\* analyze_with_cache: cache_stats; the hit rate is kept as a fraction.
CacheStats(posts, cached, new) ==
    [total |-> Len(posts), cached |-> Len(cached), new |-> Len(new),
     cache_hit_rate |-> <<Len(cached), Len(posts)>>]

\* classify_posts: the batch posts[i : i + batch_size]
BatchAt(posts, i, bs) == SubSeq(posts, i + 1, Min(i + bs, Len(posts)))

\* classify_posts: tier_eligible_posts, from zip(posts, all_classifications)
TierEligible(posts, all_cls) ==
    LET n == Min(Len(posts), Len(all_cls))
        keep == {k \in 1..n : all_cls[k].category # "unrelated"}
        F[k \in 0..n] ==
            IF k = 0 THEN <<>>
            ELSE IF k \in keep THEN F[k - 1] \o <<posts[k]>> ELSE F[k - 1]
    IN  F[n]

\* Mutant: only the classifications that got tier data are kept.
MergeTiers_KeepsTaggedOnly(all_cls, tier_results) ==
    LET ids == {tier_results[k].post_id : k \in DOMAIN tier_results}
        F[k \in 0..Len(all_cls)] ==
            IF k = 0 THEN <<>>
            ELSE IF all_cls[k].post_id \in ids
                 THEN Append(F[k - 1],
                             [all_cls[k] EXCEPT !.tier_tags = Some("tiers")])
                 ELSE F[k - 1]
    IN  F[Len(all_cls)]

\* classify_posts: merge of one tier batch into all_classifications
MergeTiers(all_cls, tier_results) ==
    LET ids == {tier_results[k].post_id : k \in DOMAIN tier_results}
        \* dict comprehension: the last entry of an id wins
        tier_map(pid) ==
            tier_results[CHOOSE k \in DOMAIN tier_results :
                /\ tier_results[k].post_id = pid
                /\ \A m \in DOMAIN tier_results :
                      tier_results[m].post_id = pid => m <= k]
    IN  [k \in DOMAIN all_cls |->
            IF all_cls[k].post_id \in ids
            THEN [all_cls[k] EXCEPT
                    !.tier_tags = tier_map(all_cls[k].post_id).tier_tags,
                    !.tier_clusters = tier_map(all_cls[k].post_id).clusters,
                    !.tier_scoring = tier_map(all_cls[k].post_id).scoring]
            ELSE all_cls[k]]

\* classify_posts: where the run goes once the primary loop is over
AfterPrimary(s, all_cls) ==
    LET eligible == IF HasTagging(s.project)
                    THEN TierEligible(s.to_classify, all_cls) ELSE <<>>
    IN  IF eligible # <<>>
        THEN [s EXCEPT !.pc = "tier", !.all_cls = all_cls,
                       !.primary_cls = all_cls,
                       !.tier_posts = eligible, !.ti = 0]
        ELSE [s EXCEPT !.pc = "save_posts", !.all_cls = all_cls,
                       !.primary_cls = all_cls]

\* classify_posts: the loop moves on to the batch after the one at s.i
NextBatch(s, all_cls, bs) ==
    IF s.i + bs >= Len(s.to_classify)
    THEN AfterPrimary([s EXCEPT !.i = s.i + bs, !.j = 0], all_cls)
    ELSE [s EXCEPT !.pc = "primary", !.i = s.i + bs, !.j = 0,
                   !.all_cls = all_cls]

\* Mutant: the cached posts are not filtered out.
ToClassify_All(posts, cached_ids) == posts

\* analyze_with_cache: the posts to classify
ToClassify(posts, cached_ids) == SeqFilterIds(posts, cached_ids)

Triples(ids, s) == {<<pid, s.source, s.project>> : pid \in ids}

\* analyze_with_cache up to the call of classify_posts
ScanStart(r, src, proj, posts) ==
    /\ scan[r].pc \in RestPcs
    /\ nscans < MaxScans
    /\ nscans' = nscans + 1
    /\ LET cached_data == GetCachedClassifications(posts_tbl, cls_tbl, posts,
                                                   src, proj)
           cached_ids == {cached_data[k].post_id : k \in DOMAIN cached_data}
           cached == [k \in DOMAIN cached_data |->
                        CachedToClassification(cached_data[k])]
           to_classify == ToClassify(posts, cached_ids)
           s == [IdleScan EXCEPT
                    !.source = src, !.project = proj, !.posts = posts,
                    !.keys_at_start = {UniqueKey(row) : row \in cls_tbl},
                    !.posts_at_start = posts_tbl,
                    !.cls_at_start = cls_tbl,
                    !.cached = cached, !.to_classify = to_classify]
       IN  scan' = [scan EXCEPT ![r] =
                IF to_classify = <<>>
                THEN [s EXCEPT !.pc = "done", !.result = cached,
                               !.stats = CacheStats(posts, cached, <<>>)]
                ELSE [s EXCEPT !.pc = "primary"]]
    /\ UNCHANGED <<posts_tbl, cls_tbl, next_id, day, batch_size, dig, files,
                   charged, recharged, produced, digests_done, ndigests, ncalls,
                   last_select, call>>

\* What every request of the primary pass records.
Sent(s, ids, valid) ==
    /\ recharged' = recharged \cup (Triples(Range(ids), s) \cap charged)
    /\ charged' = charged \cup Triples(valid, s)
    /\ UNCHANGED <<posts_tbl, cls_tbl, next_id, day, batch_size, dig, files,
                   produced, digests_done, nscans, ndigests, ncalls,
                   last_select, call>>

LogReq(s, ids, outcome, valid) ==
    [s EXCEPT !.reqs = @ \o <<[ids |-> ids, outcome |-> outcome,
                               valid |-> valid]>>]

ValidIds(ids, cls) == {cls[k].post_id : k \in DOMAIN cls} \cap Range(ids)

\* classify_posts: a batch is answered
PrimaryBatchOk(r) ==
    /\ scan[r].pc = "primary"
    /\ LET s == scan[r]
           batch == BatchAt(s.to_classify, s.i, batch_size)
       IN  \E resp \in Responses(batch) :
             LET cls == ParseItems(resp)
             IN  /\ scan' = [scan EXCEPT ![r] =
                        NextBatch(LogReq(s, batch, "ok", ValidIds(batch, cls)),
                                  s.all_cls \o cls, batch_size)]
                 /\ Sent(s, batch, ValidIds(batch, cls))

\* Mutant: a refused batch is sent again as a whole.
PrimaryBatchRefused_Resend(r) ==
    /\ scan[r].pc = "primary"
    /\ LET s == scan[r]
           batch == BatchAt(s.to_classify, s.i, batch_size)
       IN  /\ scan' = [scan EXCEPT ![r] = LogReq(s, batch, "refusal", {})]
           /\ Sent(s, batch, {})

\* classify_posts: a batch is refused (ValueError naming the refusal)
PrimaryBatchRefused(r) ==
    /\ scan[r].pc = "primary"
    /\ LET s == scan[r]
           batch == BatchAt(s.to_classify, s.i, batch_size)
       IN  /\ scan' = [scan EXCEPT ![r] =
                  [LogReq(s, batch, "refusal", {}) EXCEPT
                        !.pc = "single", !.j = 1]]
           /\ Sent(s, batch, {})

\* Mutant: the error of a batch is swallowed and the next batch is sent.
PrimaryBatchFatal_Swallowed(r) ==
    /\ scan[r].pc = "primary"
    /\ LET s == scan[r]
           batch == BatchAt(s.to_classify, s.i, batch_size)
       IN  /\ scan' = [scan EXCEPT ![r] =
                  NextBatch(LogReq(s, batch, "fatal", {}), s.all_cls,
                            batch_size)]
           /\ Sent(s, batch, {})

\* Mutant: the posts are saved before they are classified, so they are in
\* the store when the error of a batch propagates.
PrimaryBatchFatal_SavesFirst(r) ==
    /\ scan[r].pc = "primary"
    /\ LET s == scan[r]
           batch == BatchAt(s.to_classify, s.i, batch_size)
       IN  /\ scan' = [scan EXCEPT ![r] =
                  [LogReq(s, batch, "fatal", {}) EXCEPT !.pc = "raised"]]
           /\ posts_tbl' = posts_tbl
                  \cup SavePostsRows(SavePostsToAdd(posts_tbl, s.to_classify),
                                     s.source, s.project)
           /\ recharged' = recharged \cup (Triples(Range(batch), s) \cap charged)
           /\ UNCHANGED <<cls_tbl, next_id, day, batch_size, dig, files,
                          charged, produced, digests_done, nscans, ndigests,
                          ncalls, last_select, call>>

\* classify_posts: a batch fails with any other error, which propagates
\* through analyze_with_cache
PrimaryBatchFatal(r) ==
    /\ scan[r].pc = "primary"
    /\ LET s == scan[r]
           batch == BatchAt(s.to_classify, s.i, batch_size)
       IN  /\ scan' = [scan EXCEPT ![r] =
                  [LogReq(s, batch, "fatal", {}) EXCEPT !.pc = "raised"]]
           /\ Sent(s, batch, {})

\* Mutant: the result of an individual retry is not added to the list.
NextSingle_DropsResult(s, all_cls, bs) ==
    IF s.j >= Len(BatchAt(s.to_classify, s.i, bs))
    THEN NextBatch(s, s.all_cls, bs)
    ELSE [s EXCEPT !.j = s.j + 1]

\* classify_posts: the individual retry moves on to the next post
NextSingle(s, all_cls, bs) ==
    IF s.j >= Len(BatchAt(s.to_classify, s.i, bs))
    THEN NextBatch(s, all_cls, bs)
    ELSE [s EXCEPT !.j = s.j + 1, !.all_cls = all_cls]

\* classify_posts: a post of a refused batch, sent alone, is answered
SingleOk(r) ==
    /\ scan[r].pc = "single"
    /\ LET s == scan[r]
           one == <<BatchAt(s.to_classify, s.i, batch_size)[s.j]>>
       IN  \E resp \in Responses(one) :
             LET cls == ParseItems(resp)
             IN  /\ scan' = [scan EXCEPT ![r] =
                        NextSingle(LogReq(s, one, "ok", ValidIds(one, cls)),
                                   s.all_cls \o cls, batch_size)]
                 /\ Sent(s, one, ValidIds(one, cls))

\* classify_posts: a post sent alone is refused again and skipped
SingleRefused(r) ==
    /\ scan[r].pc = "single"
    /\ LET s == scan[r]
           one == <<BatchAt(s.to_classify, s.i, batch_size)[s.j]>>
       IN  /\ scan' = [scan EXCEPT ![r] =
                  NextSingle(LogReq(s, one, "refusal", {}), s.all_cls,
                             batch_size)]
           /\ Sent(s, one, {})

\* classify_posts: a post sent alone fails with any other error
SingleFatal(r) ==
    /\ scan[r].pc = "single"
    /\ LET s == scan[r]
           one == <<BatchAt(s.to_classify, s.i, batch_size)[s.j]>>
       IN  /\ scan' = [scan EXCEPT ![r] =
                  [LogReq(s, one, "fatal", {}) EXCEPT !.pc = "raised"]]
           /\ Sent(s, one, {})

\* classify_posts: the tier pass moves on to the next tier batch
NextTier(s, all_cls, bs) ==
    [s EXCEPT !.all_cls = all_cls, !.ti = s.ti + bs,
              !.pc = IF s.ti + bs >= Len(s.tier_posts)
                     THEN "save_posts" ELSE "tier"]

ScanLocal ==
    UNCHANGED <<posts_tbl, cls_tbl, next_id, day, batch_size, dig, files,
                charged, recharged, produced, digests_done, nscans, ndigests, ncalls,
                last_select, call>>

\* The tier batches attempted so far, with their outcome.
LogTier(s, ids, outcome) ==
    [s EXCEPT !.tier_log = Append(@, [ids |-> ids, outcome |-> outcome])]

\* classify_posts: a tier batch is answered and merged
TierBatchOk(r) ==
    /\ scan[r].pc = "tier"
    /\ LET s == scan[r]
           batch == BatchAt(s.tier_posts, s.ti, batch_size)
       IN  \E tier_results \in TierResponses(batch) :
             scan' = [scan EXCEPT ![r] =
                NextTier(LogTier(s, batch, "ok"),
                         MergeTiers(s.all_cls, tier_results), batch_size)]
    /\ ScanLocal

\* classify_posts: a tier batch raises; it is logged and skipped
TierBatchFail(r) ==
    /\ scan[r].pc = "tier"
    /\ LET s == scan[r]
           batch == BatchAt(s.tier_posts, s.ti, batch_size)
       IN  scan' = [scan EXCEPT ![r] =
               NextTier(LogTier(s, batch, "failed"), s.all_cls, batch_size)]
    /\ ScanLocal

\* save_posts(to_classify): the existence checks
SavePostsBegin(r) ==
    /\ scan[r].pc = "save_posts"
    /\ scan' = [scan EXCEPT ![r] =
            [scan[r] EXCEPT !.pc = "commit_posts",
                            !.to_add = SavePostsToAdd(posts_tbl,
                                                      scan[r].to_classify)]]
    /\ ScanLocal

\* save_posts(to_classify): the commit; a key collision raises and rolls back
SavePostsCommit(r) ==
    /\ scan[r].pc = "commit_posts"
    /\ LET s == scan[r]
       IN  IF SavePostsConflict(posts_tbl, s.to_add)
           THEN /\ scan' = [scan EXCEPT ![r] = [s EXCEPT !.pc = "raised"]]
                /\ UNCHANGED posts_tbl
           ELSE /\ scan' = [scan EXCEPT ![r] = [s EXCEPT !.pc = "save_cls"]]
                /\ posts_tbl' = posts_tbl
                       \cup SavePostsRows(s.to_add, s.source, s.project)
    /\ UNCHANGED <<cls_tbl, next_id, day, batch_size, dig, files, charged,
                   recharged, produced, digests_done, nscans, ndigests, ncalls,
                   last_select, call>>

\* analyze_with_cache: save_classifications of the new ones, stats, return
SaveNewClassifications(r) ==
    /\ scan[r].pc = "save_cls"
    /\ LET s == scan[r]
           dicts == [k \in DOMAIN s.all_cls |-> ToSaveDict(s.all_cls[k])]
           store == SaveClassifications(
                        [tbl |-> cls_tbl, next_id |-> next_id], dicts,
                        s.source, ModelVersion, s.project, day)
       IN  /\ cls_tbl' = store.tbl
           /\ next_id' = store.next_id
           /\ scan' = [scan EXCEPT ![r] =
                  [s EXCEPT !.pc = "done",
                            !.result = s.cached \o s.all_cls,
                            !.stats = CacheStats(s.posts, s.cached, s.all_cls)]]
           /\ produced' = [key \in DOMAIN produced \cup
                                  {<<s.all_cls[k].post_id, s.source, s.project>> :
                                      k \in DOMAIN s.all_cls} |->
                  IF \E k \in DOMAIN s.all_cls :
                        <<s.all_cls[k].post_id, s.source, s.project>> = key
                  THEN s.all_cls[CHOOSE k \in DOMAIN s.all_cls :
                        <<s.all_cls[k].post_id, s.source, s.project>> = key]
                  ELSE produced[key]]
    /\ UNCHANGED <<posts_tbl, day, batch_size, dig, files, charged, recharged,
                   digests_done, nscans, ndigests, ncalls, last_select, call>>

\* The clock advances.
Tick ==
    /\ day < MaxDay
    /\ day' = day + 1
    /\ UNCHANGED <<posts_tbl, cls_tbl, next_id, batch_size, scan, dig, files,
                   charged, recharged, produced, digests_done, nscans, ndigests, ncalls,
                   last_select, call>>

----------------------------------------------------------------------------
(* digest.py: one digest invocation (generate, generate_json, generate_both) *)

DigestRest == {"idle", "returned", "raised"}

IdleDigest ==
    [pc |-> "idle", kind |-> "md", project |-> "claudeia", limit |-> 0,
     posts_data |-> <<>>, k |-> 0, articles |-> <<>>, processed_ids |-> <<>>,
     md_num |-> 0, md_stories |-> <<>>, json_stories |-> <<>>,
     mark_calls |-> 0, err |-> ""]

\* A path of an output file.
Path(fmt, project, date, num) ==
    [fmt |-> fmt, project |-> project, date |-> date, num |-> num]

\* _write_markdown / generate_json: next available sequence number
NextNum(fs, fmt, project, date_str) ==
    LET numbers == {f.num : f \in {g \in fs : /\ g.fmt = fmt
                                              /\ g.project = project
                                              /\ g.date = date_str}}
    IN  IF numbers = {} THEN 1
        ELSE (CHOOSE n \in numbers : \A m \in numbers : m <= n) + 1

\* Story ids "{date}_{seq:02d}_{idx:03d}" of a list of items
Stories(items, date_str, seq_num) ==
    [idx \in DOMAIN items |->
        [id |-> <<date_str, seq_num, idx>>, post_id |-> items[idx].post.id]]

PostIdsOf(items) == [idx \in DOMAIN items |-> items[idx].post.id]

DigestLocal ==
    UNCHANGED <<posts_tbl, cls_tbl, next_id, day, batch_size, scan, files,
                charged, recharged, produced, digests_done, nscans, ndigests, ncalls,
                last_select, call>>

\* generate / generate_json / generate_both: the selection, and the check
\* that it is not empty
DigestBegin(kind, project, limit) ==
    /\ dig.pc \in DigestRest
    /\ \E posts_data \in GetSignalPostsForDigest(posts_tbl, cls_tbl, project,
                                                 limit, DefaultMinConfidence) :
         dig' = [IdleDigest EXCEPT
                    !.kind = kind, !.project = project, !.limit = limit,
                    !.posts_data = posts_data, !.k = 1,
                    !.pc = IF posts_data = <<>> THEN "raised"
                           ELSE IF kind = "json" THEN "json_only"
                           ELSE "articles",
                    !.err = IF posts_data = <<>> THEN "no_posts" ELSE ""]
    /\ UNCHANGED <<posts_tbl, cls_tbl, next_id, day, batch_size, scan, files,
                   charged, recharged, produced, digests_done, nscans, ncalls,
                   last_select, call>>

\* One of a bounded number of digest invocations.
DigestStart(kind, project, limit) ==
    /\ ndigests < MaxDigests
    /\ ndigests' = ndigests + 1
    /\ DigestBegin(kind, project, limit)

\* Mutant: the id of an item is recorded as processed also when it has no
\* article.
DigestArticleStep_ProcessedAlways(ok) ==
    /\ dig.pc = "articles"
    /\ LET item == dig.posts_data[dig.k]
           articles == IF ok THEN Append(dig.articles, item)
                       ELSE dig.articles
           processed == Append(dig.processed_ids, item.post.id)
           last == dig.k = Len(dig.posts_data)
       IN  dig' = [dig EXCEPT
                      !.articles = articles,
                      !.processed_ids = processed,
                      !.k = dig.k + 1,
                      !.pc = IF ~last THEN "articles"
                             ELSE IF articles = <<>> THEN "raised"
                             ELSE "write_md",
                      !.err = IF last /\ articles = <<>>
                              THEN "no_articles" ELSE ""]
    /\ DigestLocal

\* generate / generate_both: _process_post of one item (an article, or
\* None), and after the last one the check that some article exists
DigestArticleStep(ok) ==
    /\ dig.pc = "articles"
    /\ LET item == dig.posts_data[dig.k]
           articles == IF ok THEN Append(dig.articles, item)
                       ELSE dig.articles
           processed == IF ok THEN Append(dig.processed_ids, item.post.id)
                        ELSE dig.processed_ids
           last == dig.k = Len(dig.posts_data)
       IN  dig' = [dig EXCEPT
                      !.articles = articles,
                      !.processed_ids = processed,
                      !.k = dig.k + 1,
                      !.pc = IF ~last THEN "articles"
                             ELSE IF articles = <<>> THEN "raised"
                             ELSE "write_md",
                      !.err = IF last /\ articles = <<>>
                              THEN "no_articles" ELSE ""]
    /\ DigestLocal

\* _process_post returns an article, or None.
DigestArticle == \E ok \in BOOLEAN : DigestArticleStep(ok)

\* Mutant: generate_both marks the posts right after the markdown is
\* written, as generate does.
DigestWriteMarkdown_MarksEarly ==
    /\ dig.pc = "write_md"
    /\ LET date_str == day
           next_num == NextNum(files, "md", dig.project, date_str)
       IN  /\ files' = files \cup {Path("md", dig.project, date_str, next_num)}
           /\ dig' = [dig EXCEPT
                        !.md_num = next_num,
                        !.md_stories = Stories(dig.articles, date_str, next_num),
                        !.pc = IF dig.kind = "md" THEN "mark"
                               ELSE "write_json"]
    /\ cls_tbl' = MarkPostsAsSentInDigest(cls_tbl, dig.processed_ids,
                                          dig.project, day)
    /\ UNCHANGED <<posts_tbl, next_id, day, batch_size, scan, charged,
                   recharged, produced, digests_done, nscans, ndigests,
                   ncalls, last_select, call>>

\* _write_markdown
DigestWriteMarkdown ==
    /\ dig.pc = "write_md"
    /\ LET date_str == day
           next_num == NextNum(files, "md", dig.project, date_str)
       IN  /\ files' = files \cup {Path("md", dig.project, date_str, next_num)}
           /\ dig' = [dig EXCEPT
                        !.md_num = next_num,
                        !.md_stories = Stories(dig.articles, date_str, next_num),
                        !.pc = IF dig.kind = "md" THEN "mark"
                               ELSE "write_json"]
    /\ UNCHANGED <<posts_tbl, cls_tbl, next_id, day, batch_size, scan,
                   charged, recharged, produced, digests_done, nscans, ndigests, ncalls,
                   last_select, call>>

\* generate_both, steps 4 and 5: the JSON with the markdown's sequence number
DigestWriteJson ==
    /\ dig.pc = "write_json"
    /\ LET seq_num == dig.md_num
           date_str == day
       IN  /\ files' = files \cup {Path("json", dig.project, date_str, seq_num)}
           /\ dig' = [dig EXCEPT
                        !.json_stories = Stories(dig.articles, date_str, seq_num),
                        !.pc = "mark"]
    /\ UNCHANGED <<posts_tbl, cls_tbl, next_id, day, batch_size, scan,
                   charged, recharged, produced, digests_done, nscans, ndigests, ncalls,
                   last_select, call>>

\* generate / generate_both, last step: mark_posts_as_sent_in_digest, return
DigestMark ==
    /\ dig.pc = "mark"
    /\ cls_tbl' = MarkPostsAsSentInDigest(cls_tbl, dig.processed_ids,
                                          dig.project, day)
    /\ dig' = [dig EXCEPT !.pc = "returned", !.mark_calls = dig.mark_calls + 1]
    /\ digests_done' = Append(digests_done,
                              [project |-> dig.project,
                               post_ids |-> Range(dig.processed_ids)])
    /\ UNCHANGED <<posts_tbl, next_id, day, batch_size, scan, files, charged,
                   recharged, produced, nscans, ndigests, ncalls, last_select, call>>

\* generate_json, steps 2 to 5: stories, file, return
DigestJsonOnly ==
    /\ dig.pc = "json_only"
    /\ LET date_str == day
           next_num == NextNum(files, "json", dig.project, date_str)
       IN  /\ files' = files \cup {Path("json", dig.project, date_str, next_num)}
           /\ dig' = [dig EXCEPT
                        !.json_stories = Stories(dig.posts_data, date_str,
                                                 next_num),
                        !.pc = "returned"]
    /\ digests_done' = Append(digests_done,
                              [project |-> dig.project,
                               post_ids |-> Range(PostIdsOf(dig.posts_data))])
    /\ UNCHANGED <<posts_tbl, cls_tbl, next_id, day, batch_size, scan,
                   charged, recharged, produced, nscans, ndigests, ncalls,
                   last_select, call>>

\* An exception leaves the invocation: _process_post raises, or a
\* directory or file cannot be written.
DigestFail ==
    /\ dig.pc \in {"articles", "write_md", "write_json", "json_only"}
    /\ dig' = [dig EXCEPT !.pc = "raised", !.err = "failure"]
    /\ DigestLocal

\* generate_both: the JSON file is written, the latest.json link fails
DigestFailAfterJson ==
    /\ dig.pc = "write_json"
    /\ files' = files \cup {Path("json", dig.project, day, dig.md_num)}
    /\ dig' = [dig EXCEPT
                 !.json_stories = Stories(dig.articles, day, dig.md_num),
                 !.pc = "raised", !.err = "failure"]
    /\ UNCHANGED <<posts_tbl, cls_tbl, next_id, day, batch_size, scan,
                   charged, recharged, produced, digests_done, nscans, ndigests, ncalls,
                   last_select, call>>

\* The exception class that leaves the generator for each way it raises:
\* the empty selection and the empty article list both raise ValueError,
\* a failed write raises an OSError.
RaisedKind(err) ==
    IF err \in {"no_posts", "no_articles"} THEN "ValueError" ELSE "OSError"

\* cli digest: the except clause that handles what the generator raised,
\* and the exit status it ends with.
DigestCommand(d) ==
    IF d.pc = "returned" THEN [handler |-> "none", exit_status |-> 0]
    ELSE IF RaisedKind(d.err) = "ValueError"
         THEN [handler |-> "except ValueError", exit_status |-> 0]
         ELSE [handler |-> "except Exception", exit_status |-> 1]

----------------------------------------------------------------------------
(* Specifications *)

\* Nothing stored, nothing running.
Idle ==
    /\ posts_tbl = {}
    /\ cls_tbl = {}
    /\ next_id = 1
    /\ day = 1
    /\ batch_size \in BatchSizes
    /\ scan = [r \in Runs |-> IdleScan]
    /\ dig = IdleDigest
    /\ files = {}
    /\ charged = {}
    /\ recharged = {}
    /\ produced = <<>>
    /\ digests_done = <<>>
    /\ nscans = 0
    /\ ndigests = 0
    /\ ncalls = 0
    /\ last_select = <<>>

Init == Idle /\ call = NoCall

ScanStep(r) ==
    \/ PrimaryBatchOk(r)
    \/ PrimaryBatchRefused(r)
    \/ PrimaryBatchFatal(r)
    \/ SingleOk(r)
    \/ SingleRefused(r)
    \/ SingleFatal(r)
    \/ TierBatchOk(r)
    \/ TierBatchFail(r)
    \/ SavePostsBegin(r)
    \/ SavePostsCommit(r)
    \/ SaveNewClassifications(r)

\* The listings of the sequential scans.  reddit_a and reddit_b are
\* interchangeable, so one order of the pair is enough.
ScanListings(src) ==
    {posts \in Listings(src) : posts # <<"reddit_b", "reddit_a">>}

\* Sequential scans; a scan reads the clock once, so the day stays fixed.
Next ==
    \/ \E src \in Sources, proj \in Projects :
         \E posts \in ScanListings(src) : ScanStart(1, src, proj, posts)
    \/ ScanStep(1)

Spec == Init /\ [][Next]_vars

\* A direct call of Repository.save_classifications
CallSaveClassifications(classifications, source, project) ==
    /\ ncalls < MaxCalls
    /\ ncalls' = ncalls + 1
    /\ LET store == SaveClassifications(
                        [tbl |-> cls_tbl, next_id |-> next_id],
                        classifications, source, ModelVersion, project, day)
       IN  /\ cls_tbl' = store.tbl
           /\ next_id' = store.next_id
    /\ UNCHANGED <<posts_tbl, day, batch_size, scan, dig, files, charged,
                   recharged, produced, digests_done, nscans, ndigests, last_select, call>>

\* A direct call of Repository.save_posts, in a session of its own
CallSavePosts(posts, source, project) ==
    /\ ncalls < MaxCalls
    /\ ncalls' = ncalls + 1
    /\ LET to_add == SavePostsToAdd(posts_tbl, posts)
       IN  posts_tbl' = IF SavePostsConflict(posts_tbl, to_add)
                        THEN posts_tbl
                        ELSE posts_tbl \cup SavePostsRows(to_add, source, project)
    /\ UNCHANGED <<cls_tbl, next_id, day, batch_size, scan, dig, files,
                   charged, recharged, produced, digests_done, nscans, ndigests,
                   last_select, call>>

\* A direct call of Repository.mark_posts_as_sent_in_digest
CallMarkPostsAsSent(post_ids, project) ==
    /\ ncalls < MaxCalls
    /\ ncalls' = ncalls + 1
    /\ cls_tbl' = MarkPostsAsSentInDigest(cls_tbl, post_ids, project, day)
    /\ UNCHANGED <<posts_tbl, next_id, day, batch_size, scan, dig, files,
                   charged, recharged, produced, digests_done, nscans, ndigests,
                   last_select, call>>

\* A direct call of Repository.get_signal_posts_for_digest
CallGetSignalPosts(project, limit, min_confidence) ==
    /\ ncalls < MaxCalls
    /\ ncalls' = ncalls + 1
    /\ last_select' \in GetSignalPostsForDigest(posts_tbl, cls_tbl, project,
                                                limit, min_confidence)
    /\ UNCHANGED <<posts_tbl, cls_tbl, next_id, day, batch_size, scan, dig,
                   files, charged, recharged, produced, digests_done, nscans,
                   ndigests, call>>

\* The listing the concurrent runs scan, each for either project.
StoreListings == {<<"reddit_a">>}

\* The dicts a caller passes to save_classifications for a post.
SaveDicts(pid) ==
    {ToSaveDict(c) : c \in {ParseItem([post_id |-> pid] @@ t) :
                              t \in ItemTemplates} \ {Dropped}}

\* Two analyze_with_cache runs interleave (two processes on one store).
\* The processes are interchangeable, so process 1 is the first to start.
NextStore ==
    \/ \E r \in Runs, proj \in Projects, posts \in StoreListings :
         /\ r = 1 \/ scan[1].pc # "idle"
         /\ ScanStart(r, PostOf(posts[1]).source, proj, posts)
    \/ \E r \in Runs : ScanStep(r)

InitStore == Init /\ batch_size = 1

SpecStore == InitStore /\ [][NextStore]_vars

\* The Repository operations are called directly, in any order.
NextRepo ==
    \/ \E src \in Sources, proj \in Projects : \E posts \in Listings(src) :
         \/ \E d \in SaveDicts(posts[1]) :
              CallSaveClassifications(<<d>>, src, proj)
         \/ CallSavePosts(posts, src, proj)
         \/ CallMarkPostsAsSent(posts, proj)
    \/ \E proj \in Projects, limit \in Limits :
         CallGetSignalPosts(proj, limit, DefaultMinConfidence)
    \/ Tick

SpecRepo == InitStore /\ [][NextRepo]_vars

\* What earlier scans can have left in the store for one post.
SeedItems ==
    [signal |-> [category |-> "news", confidence |-> 9, reasoning |-> "r1",
                 topic_tags |-> <<"agents">>, format_tag |-> Some("guide")],
     low |-> [category |-> "troubleshooting", confidence |-> 5],
     good |-> [category |-> "research_verified", confidence |-> 8]]

RECURSIVE SeedStore(_, _, _)
\* The store after scans that saved, for each post of the list, the
\* classification seeds[post] under the project (nothing for "none").
SeedStore(store, pids, seeds) ==
    IF pids = <<>> THEN store
    ELSE LET pid == Head(pids)
             src == PostOf(pid).source
             found == seeds[pid] # "none"
             dicts == IF found
                      THEN <<ToSaveDict(ParseItem([post_id |-> pid]
                                                    @@ SeedItems[seeds[pid]]))>>
                      ELSE <<>>
             saved == SaveClassifications(
                          [tbl |-> store.tbl, next_id |-> store.next_id],
                          dicts, src, ModelVersion, "claudeia", 1)
         IN  SeedStore(
                 [ptbl |-> IF found
                           THEN store.ptbl \cup SavePostsRows(
                                    SavePostsToAdd(store.ptbl, <<pid>>), src,
                                    "claudeia")
                           ELSE store.ptbl,
                  tbl |-> saved.tbl, next_id |-> saved.next_id],
                 Tail(pids), seeds)

CatalogueOrder == <<"reddit_a", "reddit_b", "hn_c">>

\* The classifications a scan may have left for each post: one post of the
\* catalogue may have a low-confidence row.
SeedChoices ==
    {seeds \in [PostIds -> {"none", "signal", "low"}] :
        \A pid \in PostIds : seeds[pid] = "low" => pid = "reddit_b"}

\* The digest protocol starts from a store that scans have filled; reddit_a
\* has also been scanned for the other project.
\* The store that earlier scans left, and no digest running.
DigestSeeded ==
    /\ \E seeds \in SeedChoices :
         LET s1 == SeedStore([ptbl |-> {}, tbl |-> {}, next_id |-> 1],
                             CatalogueOrder, seeds)
             s2 == SaveClassifications(
                       [tbl |-> s1.tbl, next_id |-> s1.next_id],
                       <<ToSaveDict(ParseItem([post_id |-> "reddit_a"]
                                                @@ SeedItems["signal"]))>>,
                       "reddit", ModelVersion, "other", 1)
         IN  /\ posts_tbl = s1.ptbl \cup SavePostsRows(
                                 SavePostsToAdd(s1.ptbl, <<"reddit_a">>),
                                 "reddit", "other")
             /\ cls_tbl = s2.tbl
             /\ next_id = s2.next_id
    /\ day = 1
    /\ batch_size = 2
    /\ scan = [r \in Runs |-> IdleScan]
    /\ dig = IdleDigest
    /\ files = {}
    /\ charged = {}
    /\ recharged = {}
    /\ produced = <<>>
    /\ digests_done = <<>>
    /\ nscans = 0
    /\ ndigests = 0
    /\ ncalls = 0
    /\ last_select = <<>>

InitDigest == DigestSeeded /\ call = NoCall

\* The generator reads the clock in the steps that write a file or mark the
\* posts; a day that changes elsewhere is seen at the next of these steps.
DigestTick ==
    /\ dig.pc \in {"write_md", "write_json", "mark", "json_only"}
    /\ Tick

NextDigest ==
    \/ \E kind \in {"md", "json", "both"}, project \in Projects,
          limit \in Limits : DigestStart(kind, project, limit)
    \/ DigestArticle
    \/ DigestWriteMarkdown
    \/ DigestWriteJson
    \/ DigestMark
    \/ DigestJsonOnly
    \/ DigestFail
    \/ DigestFailAfterJson
    \/ DigestTick

SpecDigest == InitDigest /\ [][NextDigest]_vars

----------------------------------------------------------------------------
(* _classify_batch on any response array *)

\* The response arrays: one or two elements, the k-th about the k-th post.
ParseInputs ==
    {<<x>> : x \in RawItems("reddit_a")} \cup
    {<<x, y>> : x \in RawItems("reddit_a"), y \in RawItems("reddit_b")}

\* _classify_batch, from the parsed array to its return or its exception
ClassifyBatchParse ==
    /\ call.fn = "parse"
    /\ ~call.done
    /\ call' = [call EXCEPT !.done = TRUE,
                            !.out = ClassifyItems(call.items, <<>>)]
    /\ UNCHANGED <<posts_tbl, cls_tbl, next_id, day, batch_size, scan, dig,
                   files, charged, recharged, produced, digests_done, nscans,
                   ndigests, ncalls, last_select>>

InitParse ==
    /\ Idle
    /\ batch_size = 2
    /\ \E items \in ParseInputs :
         call = [fn |-> "parse", items |-> items, done |-> FALSE,
                 out |-> [raised |-> FALSE, cls |-> <<>>]]

NextParse == ClassifyBatchParse

SpecParse == InitParse /\ [][NextParse]_vars

----------------------------------------------------------------------------
(* get_signal_posts_for_digest on any store that scans and digests left *)

\* What a post can have in the store for the project: nothing, a signal row
\* of confidence 0.9 or 0.8, a low-confidence row, a row already consumed.
SelectSeedKinds == {"none", "signal", "good", "low", "sent"}

MinConfidences == {5, DefaultMinConfidence}

\* No scan, no digest and no call is under way.
NothingRunning ==
    /\ day = 1
    /\ batch_size = 2
    /\ scan = [r \in Runs |-> IdleScan]
    /\ dig = IdleDigest
    /\ files = {}
    /\ charged = {}
    /\ recharged = {}
    /\ produced = <<>>
    /\ digests_done = <<>>
    /\ nscans = 0
    /\ ndigests = 0
    /\ ncalls = 0
    /\ last_select = <<>>

InitSelect ==
    /\ \E seeds \in [PostIds -> SelectSeedKinds] :
         LET saved == [pid \in PostIds |->
                         IF seeds[pid] = "sent" THEN "signal" ELSE seeds[pid]]
             s1 == SeedStore([ptbl |-> {}, tbl |-> {}, next_id |-> 1],
                             CatalogueOrder, saved)
             s2 == SaveClassifications(
                       [tbl |-> s1.tbl, next_id |-> s1.next_id],
                       <<ToSaveDict(ParseItem([post_id |-> "reddit_a"]
                                                @@ SeedItems["signal"]))>>,
                       "reddit", ModelVersion, "other", 1)
             sent == SeqFilterIds(CatalogueOrder,
                                  {pid \in PostIds : seeds[pid] # "sent"})
         IN  /\ posts_tbl = s1.ptbl \cup SavePostsRows(
                                 SavePostsToAdd(s1.ptbl, <<"reddit_a">>),
                                 "reddit", "other")
             /\ cls_tbl = MarkPostsAsSentInDigest(s2.tbl, sent, "claudeia", 1)
             /\ next_id = s2.next_id
    /\ NothingRunning
    /\ call = NoCall

\* A call of Repository.get_signal_posts_for_digest, with its arguments
SelectSignalPosts(project, limit, min_confidence) ==
    /\ ncalls < MaxCalls
    /\ ncalls' = ncalls + 1
    /\ \E result \in GetSignalPostsForDigest(posts_tbl, cls_tbl, project,
                                             limit, min_confidence) :
         call' = [fn |-> "select", project |-> project, limit |-> limit,
                  min_confidence |-> min_confidence, result |-> result]
    /\ UNCHANGED <<posts_tbl, cls_tbl, next_id, day, batch_size, scan, dig,
                   files, charged, recharged, produced, digests_done, nscans,
                   ndigests, last_select>>

NextSelect ==
    \E project \in Projects, limit \in Limits,
       min_confidence \in MinConfidences :
        SelectSignalPosts(project, limit, min_confidence)

SpecSelect == InitSelect /\ [][NextSelect]_vars

----------------------------------------------------------------------------
(* The response extractors: PostClassifier._extract_json (array) and       *)
(* DigestGenerator._extract_json (object).  A text is a sequence of        *)
(* characters; the fence ``` and the word json are one element each.       *)

Fence == "fence"

RECURSIVE JStringBody(_, _)
RECURSIVE JValue(_, _)
RECURSIVE JElems(_, _)
RECURSIVE JMembers(_, _)
\* json.loads, inside a string: the index after the closing quote, 0 when
\* the text is not JSON.
JStringBody(t, i) ==
    IF i > Len(t) THEN 0
    ELSE IF t[i] = "\"" THEN i + 1
    ELSE IF t[i] = "\\"
         THEN IF i + 1 <= Len(t) /\ t[i + 1] \in {"\"", "\\"}
              THEN JStringBody(t, i + 2) ELSE 0
         ELSE JStringBody(t, i + 1)

\* json.loads, a value that starts at i: the index after it, or 0.
JValue(t, i) ==
    IF i > Len(t) THEN 0
    ELSE IF t[i] = "\"" THEN JStringBody(t, i + 1)
    ELSE IF t[i] = "["
         THEN IF i + 1 <= Len(t) /\ t[i + 1] = "]" THEN i + 2
              ELSE JElems(t, i + 1)
    ELSE IF t[i] = "{"
         THEN IF i + 1 <= Len(t) /\ t[i + 1] = "}" THEN i + 2
              ELSE JMembers(t, i + 1)
    ELSE 0

\* json.loads, the elements of an array up to its closing bracket.
JElems(t, i) ==
    LET j == JValue(t, i)
    IN  IF j = 0 \/ j > Len(t) THEN 0
        ELSE IF t[j] = "," THEN JElems(t, j + 1)
        ELSE IF t[j] = "]" THEN j + 1
        ELSE 0

\* json.loads, the members of an object up to its closing brace.
JMembers(t, i) ==
    IF i > Len(t) \/ t[i] # "\"" THEN 0
    ELSE LET k == JStringBody(t, i + 1)
         IN  IF k = 0 \/ k > Len(t) \/ t[k] # ":" THEN 0
             ELSE LET j == JValue(t, k + 1)
                  IN  IF j = 0 \/ j > Len(t) THEN 0
                      ELSE IF t[j] = "," THEN JMembers(t, j + 1)
                      ELSE IF t[j] = "}" THEN j + 1
                      ELSE 0

\* json.loads(t) returns a value (the text has one reading: no whitespace,
\* one spelling of every string), rather than raising JSONDecodeError.
IsJson(t) == t # <<>> /\ JValue(t, 1) = Len(t) + 1

\* str.find: the first index of the character, 0 when there is none.
Find(t, ch) ==
    IF \E i \in DOMAIN t : t[i] = ch
    THEN CHOOSE i \in DOMAIN t : t[i] = ch /\ \A j \in 1..(i - 1) : t[j] # ch
    ELSE 0

\* The index after an opening fence at p, with its optional json tag.
AfterFence(t, p) ==
    IF p + 1 <= Len(t) /\ t[p + 1] = "json" THEN p + 2 ELSE p + 1

\* re.search of ```(?:json)?\s*(OPEN ... CLOSE)\s*``` : the pairs <<a, b>> of
\* the first and last index of the group, for every way the pattern matches.
FenceMatches(t, open, close) ==
    {<<AfterFence(t, p), b>> :
        <<p, b>> \in {pb \in (DOMAIN t) \X (DOMAIN t) :
            /\ t[pb[1]] = Fence
            /\ AfterFence(t, pb[1]) <= Len(t)
            /\ t[AfterFence(t, pb[1])] = open
            /\ pb[2] > AfterFence(t, pb[1])
            /\ t[pb[2]] = close
            /\ pb[2] + 1 <= Len(t)
            /\ t[pb[2] + 1] = Fence}}

\* The leftmost match, and from its start the shortest (lazy) or the longest
\* (greedy) group; <<0, 0>> when the pattern does not match.
FenceGroup(t, open, close, lazy) ==
    LET ms == FenceMatches(t, open, close)
    IN  IF ms = {} THEN <<0, 0>>
        ELSE LET a == CHOOSE x \in {m[1] : m \in ms} :
                          \A m \in ms : x <= m[1]
                 bs == {m[2] : m \in {n \in ms : n[1] = a}}
                 b == CHOOSE x \in bs :
                          \A y \in bs : IF lazy THEN x <= y ELSE x >= y
             IN  <<a, b>>

RECURSIVE ScanBrackets(_, _, _)
\* PostClassifier._extract_json, the bracket counting loop from index i: the
\* index of the bracket that brings the count back to zero, or 0.
ScanBrackets(t, i, bracket_count) ==
    IF i > Len(t) THEN 0
    ELSE IF t[i] = "[" THEN ScanBrackets(t, i + 1, bracket_count + 1)
    ELSE IF t[i] = "]"
         THEN IF bracket_count - 1 = 0 THEN i
              ELSE ScanBrackets(t, i + 1, bracket_count - 1)
    ELSE ScanBrackets(t, i + 1, bracket_count)

\* PostClassifier._extract_json: the captured text, and the value or the
\* exception (ValueError, JSONDecodeError).
ClassifierExtractJson(t) ==
    LET g == FenceGroup(t, "[", "]", TRUE)
        start_idx == Find(t, "[")
        end_idx == IF start_idx = 0 THEN 0 ELSE ScanBrackets(t, start_idx, 0)
        json_str == IF g # <<0, 0>> THEN SubSeq(t, g[1], g[2])
                    ELSE IF end_idx = 0 THEN <<>>
                    ELSE SubSeq(t, start_idx, end_idx)
    IN  [via |-> IF g # <<0, 0>> THEN "fence" ELSE "scan",
         captured |-> json_str,
         ok |-> IsJson(json_str),
         value |-> IF IsJson(json_str) THEN json_str ELSE <<>>]

RECURSIVE ScanBraces(_, _, _, _, _)
\* DigestGenerator._extract_json, the brace counting loop from index i.
ScanBraces(t, i, brace_count, in_string, escape_next) ==
    IF i > Len(t) THEN 0
    ELSE IF escape_next THEN ScanBraces(t, i + 1, brace_count, in_string, FALSE)
    ELSE IF t[i] = "\\" /\ in_string
         THEN ScanBraces(t, i + 1, brace_count, in_string, TRUE)
    ELSE IF t[i] = "\""
         THEN ScanBraces(t, i + 1, brace_count, ~in_string, FALSE)
    ELSE IF ~in_string /\ t[i] = "{"
         THEN ScanBraces(t, i + 1, brace_count + 1, in_string, FALSE)
    ELSE IF ~in_string /\ t[i] = "}"
         THEN IF brace_count - 1 = 0 THEN i
              ELSE ScanBraces(t, i + 1, brace_count - 1, in_string, FALSE)
    ELSE ScanBraces(t, i + 1, brace_count, in_string, FALSE)

\* DigestGenerator._extract_json: the captured text, and the value or None.
DigestExtractJson(t) ==
    LET g == FenceGroup(t, "{", "}", FALSE)
        fenced == IF g = <<0, 0>> THEN <<>> ELSE SubSeq(t, g[1], g[2])
        json_start == Find(t, "{")
        json_end == IF json_start = 0 THEN 0
                    ELSE ScanBraces(t, json_start, 0, FALSE, FALSE)
        json_str == IF json_end = 0 THEN <<>>
                    ELSE SubSeq(t, json_start, json_end)
    IN  IF IsJson(fenced)
        THEN [via |-> "fence", captured |-> fenced, ok |-> TRUE,
              value |-> fenced]
        ELSE [via |-> "scan", captured |-> json_str, ok |-> IsJson(json_str),
              value |-> IF IsJson(json_str) THEN json_str ELSE <<>>]

\* Valid JSON arrays, as the classifier prompt asks for:
\* [], ["a"], ["]"], ["["], [[],"a"], [{"a":"a"}], ["a[a]"]
ArrayPayloads ==
    { <<"[", "]">>,
      <<"[", "\"", "a", "\"", "]">>,
      <<"[", "\"", "]", "\"", "]">>,
      <<"[", "\"", "[", "\"", "]">>,
      <<"[", "[", "]", ",", "\"", "a", "\"", "]">>,
      <<"[", "{", "\"", "a", "\"", ":", "\"", "a", "\"", "}", "]">>,
      <<"[", "\"", "a", "[", "a", "]", "\"", "]">> }

\* Valid JSON objects, as the article prompt asks for:
\* {}, {"a":"a"}, {"a":"}"}, {"a":"{"}, {"a":{}}, {"a":["a"]}, {"a":"\""}
ObjectPayloads ==
    { <<"{", "}">>,
      <<"{", "\"", "a", "\"", ":", "\"", "a", "\"", "}">>,
      <<"{", "\"", "a", "\"", ":", "\"", "}", "\"", "}">>,
      <<"{", "\"", "a", "\"", ":", "\"", "{", "\"", "}">>,
      <<"{", "\"", "a", "\"", ":", "{", "}", "}">>,
      <<"{", "\"", "a", "\"", ":", "[", "\"", "a", "\"", "]", "}">>,
      <<"{", "\"", "a", "\"", ":", "\"", "\\", "\"", "\"", "}">> }

\* Prose around the payload: none, a word, a word and a bracketed remark.
PlainProse == {<<>>, <<"a">>}
Prose == PlainProse \cup {<<"a", "[", "a", "]">>, <<"a", "{", "a", "}">>}

Wraps == {"bare", "fence", "fence_json"}

\* The response text: the payload, bare or fenced, inside the prose.
ResponseText(prefix, wrap, payload, suffix) ==
    prefix
    \o (IF wrap = "bare" THEN <<>>
        ELSE IF wrap = "fence" THEN <<Fence>> ELSE <<Fence, "json">>)
    \o payload
    \o (IF wrap = "bare" THEN <<>> ELSE <<Fence>>)
    \o suffix

ExtractLocal ==
    UNCHANGED <<posts_tbl, cls_tbl, next_id, day, batch_size, scan, dig,
                files, charged, recharged, produced, digests_done, nscans,
                ndigests, ncalls, last_select>>

\* PostClassifier._extract_json(text)
ExtractArray ==
    /\ call.fn = "extract" /\ call.kind = "array" /\ ~call.done
    /\ call' = [call EXCEPT !.done = TRUE,
                            !.out = ClassifierExtractJson(call.text)]
    /\ ExtractLocal

\* DigestGenerator._extract_json(text)
ExtractObject ==
    /\ call.fn = "extract" /\ call.kind = "object" /\ ~call.done
    /\ call' = [call EXCEPT !.done = TRUE,
                            !.out = DigestExtractJson(call.text)]
    /\ ExtractLocal

InitExtract ==
    /\ Idle
    /\ batch_size = 2
    /\ \E kind \in {"array", "object"}, prefix \in Prose, suffix \in Prose,
          wrap \in Wraps :
         \E payload \in IF kind = "array" THEN ArrayPayloads
                        ELSE ObjectPayloads :
            call = [fn |-> "extract", kind |-> kind, prefix |-> prefix,
                    wrap |-> wrap, payload |-> payload,
                    text |-> ResponseText(prefix, wrap, payload, suffix),
                    done |-> FALSE,
                    out |-> [via |-> "none", captured |-> <<>>,
                             ok |-> FALSE, value |-> <<>>]]

NextExtract == ExtractArray \/ ExtractObject

SpecExtract == InitExtract /\ [][NextExtract]_vars

----------------------------------------------------------------------------
(* analyzer.py: PostAnalyzer.analyze, the signal ratio *)

MaxClassifications == 10

\* One signal category, one noise category, and unrelated.
AnalysisCategories == {"technical", "unverified_claim", "unrelated"}

\* CategoryEnum.is_signal(category)
IsSignal(category) == category \in SignalCategories

RECURSIVE Gcd(_, _)
Gcd(a, b) == IF b = 0 THEN a ELSE Gcd(b, a % b)

\* a / b on floats: equal quotients are one value.
FloatDiv(a, b) == <<a \div Gcd(a, b), b \div Gcd(a, b)>>

\* Mutant: unrelated classifications stay in the denominator.
RelevantClassifications_All(classifications) == classifications

\* analyze: the classifications whose category is not unrelated
RelevantClassifications(classifications) ==
    SelectSeq(classifications, LAMBDA c : c.category # "unrelated")

\* analyze: signal_ratio
SignalRatio(classifications) ==
    LET relevant_classifications == RelevantClassifications(classifications)
        signal_count == Len(SelectSeq(relevant_classifications,
                                      LAMBDA c : IsSignal(c.category)))
    IN  IF relevant_classifications # <<>>
        THEN FloatDiv(signal_count, Len(relevant_classifications))
        ELSE <<0, 1>>

AnalyzeLocal ==
    UNCHANGED <<posts_tbl, cls_tbl, next_id, day, batch_size, scan, dig,
                files, charged, recharged, produced, digests_done, nscans,
                ndigests, ncalls, last_select>>

\* The caller collects one more classification for the report.
AddClassification(category) ==
    /\ call.fn = "analyze" /\ ~call.done
    /\ Len(call.classifications) < MaxClassifications
    /\ call' = [call EXCEPT
                   !.classifications = Append(@, [category |-> category])]
    /\ AnalyzeLocal

\* PostAnalyzer.analyze(posts, classifications)
Analyze ==
    /\ call.fn = "analyze" /\ ~call.done
    /\ call' = [call EXCEPT
                   !.done = TRUE,
                   !.signal_ratio = SignalRatio(call.classifications)]
    /\ AnalyzeLocal

InitAnalyze ==
    /\ Idle
    /\ batch_size = 2
    /\ call = [fn |-> "analyze", classifications |-> <<>>, done |-> FALSE,
               signal_ratio |-> <<0, 1>>]

NextAnalyze ==
    \/ \E category \in AnalysisCategories : AddClassification(category)
    \/ Analyze

SpecAnalyze == InitAnalyze /\ [][NextAnalyze]_vars

----------------------------------------------------------------------------
(* db/connection.py: DatabaseConnection.get_session *)

MaxSessions == 3

\* The with-blocks that can be in progress at one time.
SessionIds == 1..MaxSessions

\* No session: get_session was not called.
NoSession ==
    [pc |-> "none", open |-> FALSE, txn |-> "none", block |-> "none",
     rollback_called |-> FALSE]

SessionLocal ==
    UNCHANGED <<posts_tbl, cls_tbl, next_id, day, batch_size, scan, dig,
                files, charged, recharged, produced, digests_done, nscans,
                ndigests, ncalls, last_select>>

SetSession(k, s) == call' = [call EXCEPT !.sessions[k] = s]

\* get_session: session = self.SessionLocal(); yield session
GetSession(k) ==
    /\ call.fn = "session"
    /\ call.sessions[k].pc = "none"
    /\ SetSession(k, [NoSession EXCEPT !.pc = "in_block", !.open = TRUE,
                                       !.txn = "active",
                                       !.block = "running"])
    /\ SessionLocal

\* The with-block finishes (falls through, or returns)
BlockFinishes(k) ==
    /\ call.fn = "session"
    /\ call.sessions[k].pc = "in_block"
    /\ SetSession(k, [call.sessions[k] EXCEPT !.pc = "commit",
                                              !.block = "finished"])
    /\ SessionLocal

\* The with-block raises an Exception: except Exception
BlockRaises(k) ==
    /\ call.fn = "session"
    /\ call.sessions[k].pc = "in_block"
    /\ SetSession(k, [call.sessions[k] EXCEPT !.pc = "rollback",
                                              !.block = "raised"])
    /\ SessionLocal

\* The with-block is left by a BaseException that is not an Exception
\* (KeyboardInterrupt): no except clause runs, only finally
BlockInterrupted(k) ==
    /\ call.fn = "session"
    /\ call.sessions[k].pc = "in_block"
    /\ SetSession(k, [call.sessions[k] EXCEPT !.pc = "close",
                                              !.block = "interrupted"])
    /\ SessionLocal

\* get_session: session.commit() succeeds
CommitOk(k) ==
    /\ call.fn = "session"
    /\ call.sessions[k].pc = "commit"
    /\ SetSession(k, [call.sessions[k] EXCEPT !.pc = "close",
                                              !.txn = "committed"])
    /\ SessionLocal

\* get_session: session.commit() raises (the flush hits a duplicate key);
\* it is inside the try, so except Exception runs
CommitFails(k) ==
    /\ call.fn = "session"
    /\ call.sessions[k].pc = "commit"
    /\ SetSession(k, [call.sessions[k] EXCEPT !.pc = "rollback"])
    /\ SessionLocal

\* get_session: session.rollback(); raise
Rollback(k) ==
    /\ call.fn = "session"
    /\ call.sessions[k].pc = "rollback"
    /\ SetSession(k, [call.sessions[k] EXCEPT !.pc = "close",
                                              !.txn = "rolled_back",
                                              !.rollback_called = TRUE])
    /\ SessionLocal

\* Mutant: the session is closed only after a commit.
Close_AfterCommitOnly(k) ==
    /\ call.fn = "session"
    /\ call.sessions[k].pc = "close"
    /\ LET s == call.sessions[k]
       IN  SetSession(k, [s EXCEPT
                            !.pc = "closed",
                            !.open = s.txn # "committed",
                            !.txn = IF s.txn = "active" THEN "rolled_back"
                                    ELSE s.txn])
    /\ SessionLocal

\* get_session: finally session.close(); a transaction still in progress is
\* discarded with the session
Close(k) ==
    /\ call.fn = "session"
    /\ call.sessions[k].pc = "close"
    /\ LET s == call.sessions[k]
       IN  SetSession(k, [s EXCEPT
                            !.pc = "closed",
                            !.open = FALSE,
                            !.txn = IF s.txn = "active" THEN "rolled_back"
                                    ELSE s.txn])
    /\ SessionLocal

InitSession ==
    /\ Idle
    /\ batch_size = 2
    /\ call = [fn |-> "session", sessions |-> [k \in SessionIds |-> NoSession]]

NextSession ==
    \E k \in SessionIds :
        \/ GetSession(k)
        \/ BlockFinishes(k)
        \/ BlockRaises(k)
        \/ BlockInterrupted(k)
        \/ CommitOk(k)
        \/ CommitFails(k)
        \/ Rollback(k)
        \/ Close(k)

SpecSession == InitSession /\ [][NextSession]_vars

----------------------------------------------------------------------------
(* db/repository.py: save_posts called with any list *)

\* The lists a caller can pass for one source: an id may occur twice.
PostLists(src) ==
    LET ids == {p.id : p \in {q \in Catalogue : q.source = src}}
    IN  UNION {[1..n -> ids] : n \in 1..2}

\* Repository.save_posts(posts, source, project) in its session: the
\* existence checks, the adds, and the commit when the block is left
SavePostsCall(posts, source, project) ==
    /\ ncalls < MaxCalls
    /\ ncalls' = ncalls + 1
    /\ LET to_add == SavePostsToAdd(posts_tbl, posts)
           raised == SavePostsConflict(posts_tbl, to_add)
       IN  /\ posts_tbl' = IF raised THEN posts_tbl
                           ELSE posts_tbl
                                  \cup SavePostsRows(to_add, source, project)
           /\ call' = [fn |-> "save_posts", posts |-> posts,
                       before |-> posts_tbl, raised |-> raised]
    /\ UNCHANGED <<cls_tbl, next_id, day, batch_size, scan, dig, files,
                   charged, recharged, produced, digests_done, nscans,
                   ndigests, last_select>>

InitSavePosts == Idle /\ batch_size = 2 /\ call = NoCall

NextSavePosts ==
    \E src \in Sources, proj \in Projects : \E posts \in PostLists(src) :
        SavePostsCall(posts, src, proj)

SpecSavePosts == InitSavePosts /\ [][NextSavePosts]_vars

----------------------------------------------------------------------------
(* cli/scan.py: classify, keep the classified posts, analyze *)

\* The post ids an item of the response can carry: those of the catalogue's
\* reddit posts, and one that was never sent.
ResponseIds == {"reddit_a", "reddit_b", "not_sent"}

MaxResponseLen == 3

\* The arrays the LLM can return for a batch: any ids, in any number.
AnyResponses ==
    UNION {[1..n -> {[post_id |-> pid] @@ t :
                        pid \in ResponseIds, t \in ItemTemplates}] :
              n \in 0..MaxResponseLen}

\* scan: filtered_posts = [p for p in posts if p.id in classified_post_ids]
FilteredPosts(posts, classifications) ==
    LET classified_post_ids ==
            {classifications[k].post_id : k \in DOMAIN classifications}
    IN  SelectSeq(posts, LAMBDA p : p \in classified_post_ids)

\* PostAnalyzer.analyze: the length check that raises ValueError
AnalyzeMismatch(posts, classifications) ==
    Len(posts) # Len(classifications)

\* scan with --no-cache, for one batch of posts: classify_posts (one
\* request, answered), the filter, and the check of analyze
ScanCommand ==
    /\ call.fn = "scan_cmd" /\ ~call.done
    /\ LET classifications == ParseItems(call.response)
           filtered_posts == FilteredPosts(call.posts, classifications)
       IN  call' = [call EXCEPT
                       !.done = TRUE,
                       !.classifications = classifications,
                       !.filtered_posts = filtered_posts,
                       !.mismatch = AnalyzeMismatch(filtered_posts,
                                                    classifications)]
    /\ UNCHANGED <<posts_tbl, cls_tbl, next_id, day, batch_size, scan, dig,
                   files, charged, recharged, produced, digests_done, nscans,
                   ndigests, ncalls, last_select>>

InitScanCommand ==
    /\ Idle
    /\ batch_size = 2
    /\ \E posts \in {<<"reddit_a">>, <<"reddit_a", "reddit_b">>},
          response \in AnyResponses :
         call = [fn |-> "scan_cmd", posts |-> posts, response |-> response,
                 done |-> FALSE, classifications |-> <<>>,
                 filtered_posts |-> <<>>, mismatch |-> FALSE]

NextScanCommand == ScanCommand

SpecScanCommand == InitScanCommand /\ [][NextScanCommand]_vars

----------------------------------------------------------------------------
(* digest.py: digests generated again and again for one project *)

\* The posts whose article generation fails on every attempt are chosen
\* once; the command line (format, project, limit) stays the same.
InitDigestLive ==
    /\ DigestSeeded
    /\ \E kind \in {"md", "both"}, project \in Projects, limit \in Limits,
          failing \in SUBSET PostIds :
         call = [fn |-> "digests", kind |-> kind, project |-> project,
                 limit |-> limit, failing |-> failing]

\* The next invocation of generate / generate_both
LiveStart ==
    /\ call.fn = "digests"
    /\ DigestBegin(call.kind, call.project, call.limit)
    /\ UNCHANGED ndigests

\* _process_post of the next item: None exactly for the failing posts
LiveArticle ==
    /\ call.fn = "digests"
    /\ dig.pc = "articles"
    /\ DigestArticleStep(dig.posts_data[dig.k].post.id \notin call.failing)

NextDigestLive ==
    \/ LiveStart
    \/ LiveArticle
    \/ DigestWriteMarkdown
    \/ DigestWriteJson
    \/ DigestMark

\* Digests keep being generated, and every invocation runs to its end.
SpecDigestLive ==
    /\ InitDigestLive
    /\ [][NextDigestLive]_vars
    /\ WF_vars(LiveStart)
    /\ WF_vars(LiveArticle)
    /\ WF_vars(DigestWriteMarkdown)
    /\ WF_vars(DigestWriteJson)
    /\ WF_vars(DigestMark)

----------------------------------------------------------------------------
(* cli/digest_cmd.py: digest --dry-run, then digest *)

DigestCommandLocal ==
    UNCHANGED <<posts_tbl, cls_tbl, next_id, day, batch_size, scan, dig,
                files, charged, recharged, produced, digests_done, nscans,
                ndigests, ncalls, last_select>>

\* digest --dry-run: the posts listed in the preview table
DigestDryRun(project, limit, min_confidence) ==
    /\ call.fn = "none"
    /\ \E posts_data \in GetSignalPostsForDigest(posts_tbl, cls_tbl, project,
                                                 limit, min_confidence) :
         call' = [fn |-> "digest_cmd", project |-> project, limit |-> limit,
                  min_confidence |-> min_confidence, preview |-> posts_data,
                  ran |-> FALSE, selected |-> <<>>]
    /\ DigestCommandLocal

\* digest with the same options and no --dry-run, up to the selection made
\* by the generator: project and limit are passed on, min_confidence is not
DigestRunSelection ==
    /\ call.fn = "digest_cmd" /\ ~call.ran
    /\ \E posts_data \in GetSignalPostsForDigest(posts_tbl, cls_tbl,
                                                 call.project, call.limit,
                                                 DefaultMinConfidence) :
         call' = [call EXCEPT !.ran = TRUE, !.selected = posts_data]
    /\ DigestCommandLocal

NextDigestCommand ==
    \/ \E project \in Projects, limit \in Limits,
          min_confidence \in MinConfidences :
         DigestDryRun(project, limit, min_confidence)
    \/ DigestRunSelection

SpecDigestCommand == InitSelect /\ [][NextDigestCommand]_vars

----------------------------------------------------------------------------
(* db/repository.py: mark_posts_as_sent_in_digest called with any list *)

\* The id lists a caller can pass: empty, one id, two ids.
MarkLists == UNION {[1..n -> PostIds] : n \in 0..2}

\* Repository.mark_posts_as_sent_in_digest(post_ids, project)
MarkCall(post_ids, project) ==
    /\ call.fn = "none"
    /\ cls_tbl' = MarkPostsAsSentInDigest(cls_tbl, post_ids, project, day)
    /\ call' = [fn |-> "mark", post_ids |-> post_ids, project |-> project,
                before |-> cls_tbl, posts_before |-> posts_tbl]
    /\ UNCHANGED <<posts_tbl, next_id, day, batch_size, scan, dig, files,
                   charged, recharged, produced, digests_done, nscans,
                   ndigests, ncalls, last_select>>

NextMark ==
    \/ \E post_ids \in MarkLists, project \in Projects :
         MarkCall(post_ids, project)
    \/ Tick

SpecMark == InitSelect /\ [][NextMark]_vars

----------------------------------------------------------------------------
(* Properties *)

\* The classification rows of a post in a project.
RowsOf(pid, project) ==
    {row \in cls_tbl : row.post_id = pid /\ row.project = project}

\* C1: over any sequence of digest invocations of one project, a post
\* written into one successfully generated digest is never written into a
\* later one.
C1_NoPostInTwoDigests ==
    \A a, b \in DOMAIN digests_done :
        (a < b /\ digests_done[a].project = digests_done[b].project)
            => digests_done[a].post_ids \cap digests_done[b].post_ids = {}

\* C2: a post the LLM service has answered with a valid primary
\* classification for a (source, project) is never sent to it for primary
\* classification again, also when a later batch of the call failed.
C2_NeverChargedTwice == recharged = {}

PrimaryOver(s) ==
    s.pc \in {"tier", "save_posts", "commit_posts", "save_cls", "done"}

\* The call was one batch, the batch was refused, exactly one of its posts
\* was refused again alone and every other one was answered validly alone.
OneRefusedOfBatch(s) ==
    /\ PrimaryOver(s)
    /\ Len(s.to_classify) <= batch_size
    /\ Len(s.reqs) = Len(s.to_classify) + 1
    /\ s.reqs[1].outcome = "refusal"
    /\ Cardinality({q \in 2..Len(s.reqs) : s.reqs[q].outcome = "refusal"}) = 1
    /\ \A q \in 2..Len(s.reqs) :
          s.reqs[q].outcome # "refusal"
              => s.reqs[q].outcome = "ok" /\ s.reqs[q].valid = Range(s.reqs[q].ids)

\* C4: for a refused batch of N posts of which exactly one is refused again
\* alone and the others are answered validly alone, classify_posts returns
\* exactly N-1 classifications, one per non-refused post, in order.
C4_OneRefusedOfN ==
    \A r \in Runs :
        LET s == scan[r]
            refused == {s.reqs[q].ids[1] :
                          q \in {x \in 2..Len(s.reqs) :
                                   s.reqs[x].outcome = "refusal"}}
        IN  OneRefusedOfBatch(s) =>
              /\ Len(s.all_cls) = Len(s.to_classify) - 1
              /\ [k \in DOMAIN s.all_cls |-> s.all_cls[k].post_id]
                    = SeqFilterIds(s.to_classify, refused)

C4_Witness ==
    /\ OneRefusedOfBatch(scan[1])
    /\ Len(scan[1].to_classify) = 2
    /\ Len(scan[1].all_cls) = 1

\* C5: in every reachable state of the store, under two interleaved
\* analyze_with_cache runs that classify the same post, there is at most one
\* classification row per (post_id, source, project).
C5_OneRowPerKey ==
    \A a, b \in cls_tbl : UniqueKey(a) = UniqueKey(b) => a = b

C5_Witness ==
    /\ scan[1].pc = "done" /\ scan[2].pc = "done"
    /\ scan[1].project = scan[2].project
    /\ scan[1].to_classify = scan[2].to_classify
    /\ scan[1].all_cls # <<>> /\ scan[2].all_cls # <<>>
    /\ scan[1].all_cls # scan[2].all_cls
    /\ \E row \in cls_tbl : row.post_id = scan[1].to_classify[1]

\* C6: once a classification row has a non-null sent_in_digest_at, no
\* operation (upsert of the same post, mark, save_posts, selection) sets it
\* back to null.
C6_ConsumptionOneWay ==
    [][\A row \in cls_tbl :
          row.sent_in_digest_at # None =>
            \E next \in cls_tbl' :
                next.id = row.id /\ next.sent_in_digest_at # None]_vars

\* A consumed row that was upserted again later.
C6_Witness ==
    \E row \in cls_tbl :
        /\ row.sent_in_digest_at # None
        /\ row.classified_at > row.sent_in_digest_at[1]

\* The ids of the candidates of the current invocation.
CandidateIds == Range(PostIdsOf(dig.posts_data))

\* C7: if generate or generate_both raises before its last step,
\* mark_posts_as_sent_in_digest is not called and sent_in_digest_at stays
\* null for every candidate of the invocation.
C7_FailureMarksNothing ==
    (dig.pc = "raised" /\ dig.kind \in {"md", "both"}) =>
        /\ dig.mark_calls = 0
        /\ \A pid \in CandidateIds :
              \A row \in RowsOf(pid, dig.project) : row.sent_in_digest_at = None

\* The JSON step fails after the markdown file is written.
C7_Witness ==
    /\ dig.pc = "raised"
    /\ dig.kind = "both"
    /\ dig.md_stories # <<>>
    /\ \E pid \in CandidateIds : RowsOf(pid, dig.project) # {}

\* C8: within one generate_both the markdown and the JSON hold the same
\* posts in the same order with the same story identifiers.
C8_SameStories ==
    (dig.kind = "both" /\ dig.pc \in {"mark", "returned"})
        => dig.md_stories = dig.json_stories

\* C9 as claimed: after generate_both returns, every candidate of the
\* invocation has sent_in_digest_at set.
C9_AllCandidatesMarked ==
    (dig.kind = "both" /\ dig.pc = "returned") =>
        \A pid \in CandidateIds :
            \A row \in RowsOf(pid, dig.project) : row.sent_in_digest_at # None

\* C9 as amended: after generate_both returns, every candidate whose article
\* was generated, that is every post written into the two outputs, has
\* sent_in_digest_at set.
C9_WrittenPostsMarked ==
    (dig.kind = "both" /\ dig.pc = "returned") =>
        /\ Range(dig.processed_ids) =
              {dig.md_stories[k].post_id : k \in DOMAIN dig.md_stories}
        /\ \A pid \in Range(dig.processed_ids) :
              /\ RowsOf(pid, dig.project) # {}
              /\ \A row \in RowsOf(pid, dig.project) :
                    row.sent_in_digest_at # None

\* One of two candidates had no article; the other one is written and marked.
C9_Witness ==
    /\ dig.kind = "both"
    /\ dig.pc = "returned"
    /\ Len(dig.posts_data) = 2
    /\ Len(dig.processed_ids) = 1
    /\ \A row \in RowsOf(dig.processed_ids[1], dig.project) :
          row.sent_in_digest_at # None

\* C10: the Classification returned for a post on a cache hit equals, field
\* for field, the one classify_posts produced when the post was classified
\* and saved.
C10_CacheRoundTrip ==
    \A r \in Runs :
        \A k \in DOMAIN scan[r].cached :
            LET c == scan[r].cached[k]
                key == <<c.post_id, scan[r].source, scan[r].project>>
            IN  key \in DOMAIN produced /\ produced[key] = c

\* C11: a primary request of classify_posts (a whole batch or an individual
\* retry) that fails with an error other than a refusal is the last request
\* of the call, and the call ends by raising: nothing is retried and no later
\* batch is sent.
C11_FatalErrorEndsCall ==
    \A r \in Runs :
        \A q \in DOMAIN scan[r].reqs :
            scan[r].reqs[q].outcome = "fatal"
                => q = Len(scan[r].reqs) /\ scan[r].pc = "raised"

\* An individual retry failed while posts of the call were still unsent.
C11_Witness ==
    LET s == scan[1]
    IN  /\ s.pc = "raised"
        /\ Len(s.reqs) = 2
        /\ s.reqs[1].outcome = "refusal"
        /\ s.reqs[2].outcome = "fatal"
        /\ Len(s.reqs[2].ids) = 1
        /\ Len(s.to_classify) = 2

\* The elements of a response array that parse on their own.
ValidItems(items) ==
    {k \in DOMAIN items : ClassifyItem(items[k]).kind = "ok"}

\* C12: a failure confined to one element of a response array (a missing or
\* null required field, a non-numeric confidence, an unknown category, an
\* element that is not an object) drops only that element: the call does not
\* raise and returns the classification of every valid element, in order.
C12_ItemFailureDropsOnlyItem ==
    (call.fn = "parse" /\ call.done) =>
        /\ ~call.out.raised
        /\ Len(call.out.cls) = Cardinality(ValidItems(call.items))
        /\ \A k \in ValidItems(call.items) :
              \E m \in DOMAIN call.out.cls :
                  call.out.cls[m] = ClassifyItem(call.items[k]).cls

\* C16: every key of CATEGORY_CORRECTIONS maps to a member of CategoryEnum,
\* and every Classification that _classify_batch returns has a category of
\* CategoryEnum; an element whose label is neither a member nor a key of the
\* table is not in the output.
C16_OnlyValidCategories ==
    /\ \A key \in DOMAIN CATEGORY_CORRECTIONS :
          CATEGORY_CORRECTIONS[key] \in CategoryEnum
    /\ (call.fn = "parse" /\ call.done) =>
          /\ \A m \in DOMAIN call.out.cls :
                call.out.cls[m].category \in CategoryEnum
          /\ \A k \in DOMAIN call.items :
                LET raw == call.items[k]
                IN  (/\ raw.category.t = "str"
                     /\ raw.category.s \notin CategoryEnum
                     /\ raw.category.s \notin DOMAIN CATEGORY_CORRECTIONS
                     /\ raw.post_id.t = "str")
                    => \A m \in DOMAIN call.out.cls :
                          call.out.cls[m].post_id # raw.post_id.s

\* A corrected label is kept and an unknown one is dropped.
C16_Witness ==
    /\ call.fn = "parse" /\ call.done
    /\ Len(call.items) = 2
    /\ call.items[1].category = JStr("news")
    /\ call.items[2].category = JStr("spam")
    /\ call.items[2].confidence = JNum(9)
    /\ call.items[2].post_id.t = "str"
    /\ ~call.out.raised
    /\ Len(call.out.cls) = 1
    /\ call.out.cls[1].category = "technical"

\* The posts whose own primary Classification is not unrelated.
OwnEligible(s) ==
    {s.primary_cls[k].post_id :
        k \in {m \in DOMAIN s.primary_cls :
                 s.primary_cls[m].category # "unrelated"}}

\* C13: when the tier pass runs, the posts sent to tier tagging are exactly
\* the posts whose own primary Classification (same post_id) has a category
\* other than unrelated, also when classifications are missing.
C13_TierPostsAreOwnEligible ==
    \A r \in Runs :
        (PrimaryOver(scan[r]) /\ HasTagging(scan[r].project))
            => Range(scan[r].tier_posts) = OwnEligible(scan[r])

\* post_id, category, confidence, red_flags and reasoning
CoreFields(c) ==
    <<c.post_id, c.category, c.confidence, c.red_flags, c.reasoning>>

\* C14: the tier pass is additive.  Whatever the tier batches do (answer,
\* raise, leave a post out, name a post that was not sent), classify_posts
\* keeps the Classifications of the primary pass, in order, with post_id,
\* category, confidence, red_flags and reasoning unchanged; a failed tier
\* batch leaves the tier fields of its posts unset; every tier batch is
\* attempted.
C14_TierPassAdditive ==
    \A r \in Runs :
        LET s == scan[r]
        IN  PrimaryOver(s) =>
              /\ Len(s.all_cls) = Len(s.primary_cls)
              /\ \A k \in DOMAIN s.all_cls :
                    CoreFields(s.all_cls[k]) = CoreFields(s.primary_cls[k])
              /\ \A q \in DOMAIN s.tier_log :
                    /\ s.tier_log[q].ids =
                          BatchAt(s.tier_posts, (q - 1) * batch_size,
                                  batch_size)
                    /\ s.tier_log[q].outcome = "failed" =>
                          \A k \in DOMAIN s.all_cls :
                              s.all_cls[k].post_id \in Range(s.tier_log[q].ids)
                                  => /\ s.all_cls[k].tier_tags = None
                                     /\ s.all_cls[k].tier_clusters = <<>>
                                     /\ s.all_cls[k].tier_scoring = None
              /\ s.pc # "tier" =>
                    Len(s.tier_log) * batch_size >= Len(s.tier_posts)

\* The first tier batch failed and the second one was merged.
C14_Witness ==
    LET s == scan[1]
    IN  /\ s.pc = "save_posts"
        /\ Len(s.tier_log) = 2
        /\ s.tier_log[1].outcome = "failed"
        /\ s.tier_log[2].outcome = "ok"
        /\ Len(s.all_cls) = 2
        /\ s.all_cls[1].tier_tags = None
        /\ s.all_cls[2].tier_tags # None

\* The classification rows the selection rule makes eligible.
EligibleRows(project, min_confidence) ==
    {row \in cls_tbl :
        /\ row.project = project
        /\ row.category \in {"technical", "troubleshooting",
                             "research_verified"}
        /\ row.sent_in_digest_at = None
        /\ row.confidence >= min_confidence}

\* The score of the post of a classification row.
ScoreOf(post_id) == (CHOOSE p \in posts_tbl : p.id = post_id).score

\* Strictly earlier in: score descending, then confidence descending.
RanksAbove(post_id1, conf1, post_id2, conf2) ==
    \/ ScoreOf(post_id1) > ScoreOf(post_id2)
    \/ ScoreOf(post_id1) = ScoreOf(post_id2) /\ conf1 > conf2

\* C15: get_signal_posts_for_digest(project, limit, min_confidence) returns
\* the first `limit` elements of the eligible rows of the project (signal
\* category, sent_in_digest_at null, confidence >= min_confidence) ordered
\* by post score descending, then confidence descending.
C15_SelectionRule ==
    call.fn = "select" =>
        LET res == call.result
            eligible == EligibleRows(call.project, call.min_confidence)
            chosen == {res[k].classification.post_id : k \in DOMAIN res}
        IN  /\ Len(res) = Min(call.limit, Cardinality(eligible))
            /\ Cardinality(chosen) = Len(res)
            /\ \A k \in DOMAIN res :
                  /\ res[k].post.id = res[k].classification.post_id
                  /\ \E row \in eligible :
                        RowToDict(row) = res[k].classification
            /\ \A i, j \in DOMAIN res :
                  i < j => ~RanksAbove(res[j].classification.post_id,
                                       res[j].classification.confidence,
                                       res[i].classification.post_id,
                                       res[i].classification.confidence)
            /\ \A row \in eligible :
                  row.post_id \notin chosen =>
                      \A k \in DOMAIN res :
                          ~RanksAbove(row.post_id, row.confidence,
                                      res[k].classification.post_id,
                                      res[k].classification.confidence)

\* Three rows are eligible and the limit is two: the post of higher score
\* comes first, and of the two posts of equal score the one of higher
\* confidence is kept.
C15_Witness ==
    /\ call.fn = "select"
    /\ call.project = "claudeia"
    /\ call.limit = 2
    /\ Len(call.result) = 2
    /\ Cardinality(EligibleRows("claudeia", call.min_confidence)) = 3
    /\ call.result[1].post.id = "hn_c"
    /\ call.result[2].classification.confidence = 9
    /\ \E row \in cls_tbl : row.project = "claudeia" /\ row.confidence = 8

\* C17: in both extractors the counting loop is not moved by a bracket of
\* the expected kind inside a quoted string: for a bare payload after plain
\* prose the captured text ends at the bracket that closes the outermost
\* container, that is, it is the payload.
C17_BracketInStringIgnored ==
    (/\ call.fn = "extract" /\ call.done
     /\ call.wrap = "bare"
     /\ call.prefix \in PlainProse)
        => call.out.captured = call.payload

\* C18: extractor round trip: for a valid JSON array (classifier) or object
\* (digest) inside any prose, bare or fenced, extraction returns a value
\* equal to the payload.
C18_ExtractorRoundTrip ==
    (call.fn = "extract" /\ call.done)
        => call.out.ok /\ call.out.value = call.payload

\* C19: an invocation that ends in a generation failure (no article could
\* be generated, or an output could not be written) is handled by the
\* command differently from one that found no eligible posts: another
\* except clause or another exit status.
C19_NoPostsDistinctFromFailure ==
    (dig.pc = "raised" /\ dig.err # "no_posts")
        => DigestCommand(dig)
             # DigestCommand([dig EXCEPT !.pc = "raised", !.err = "no_posts"])

\* classify_posts raised in run r: its last request ended in an error that
\* is not a refusal, and the run ended there.
ClassifyPostsRaised(r) ==
    /\ scan[r].pc = "raised"
    /\ scan[r].reqs # <<>>
    /\ scan[r].reqs[Len(scan[r].reqs)].outcome = "fatal"

\* C20: when classify_posts raises during analyze_with_cache, the post
\* table and the classification table are exactly what they were when the
\* call began: no row written, no row changed.
C20_RaiseLeavesStore ==
    \A r \in Runs :
        ClassifyPostsRaised(r)
            => /\ posts_tbl = scan[r].posts_at_start
               /\ cls_tbl = scan[r].cls_at_start

\* A scan over a store that already holds rows sends a request for a post
\* that is not cached, and the request fails.
C20_Witness ==
    \E r \in Runs :
        /\ ClassifyPostsRaised(r)
        /\ scan[r].posts_at_start # {}
        /\ scan[r].cls_at_start # {}
        /\ scan[r].cached # <<>>

\* The number of classifications of the report whose category is in cats.
CountIn(cats) ==
    Cardinality({k \in DOMAIN call.classifications :
                    call.classifications[k].category \in cats})

\* C21: the signal ratio is the number of classifications in a signal
\* category over the number of classifications that are not unrelated, and
\* 0 when every classification is unrelated; for 10 classifications with 3
\* unrelated and 4 signal it is 4/7.
C21_SignalRatio ==
    (call.fn = "analyze" /\ call.done) =>
        LET signal == CountIn(SignalCategories)
            relevant == CountIn(CategoryEnum \ {"unrelated"})
            ratio == call.signal_ratio
        IN  /\ ratio[2] > 0
            /\ relevant = 0 => ratio[1] = 0
            /\ relevant > 0 => ratio[1] * relevant = signal * ratio[2]
            /\ (/\ Len(call.classifications) = 10
                /\ CountIn({"unrelated"}) = 3
                /\ signal = 4) => ratio = <<4, 7>>

\* Ten classifications, three unrelated and four signal, were analyzed.
C21_Witness ==
    /\ call.fn = "analyze" /\ call.done
    /\ Len(call.classifications) = 10
    /\ CountIn({"unrelated"}) = 3
    /\ CountIn(SignalCategories) = 4

\* The sessions whose with-block was left.
Exited == {k \in SessionIds : call.sessions[k].pc = "closed"}

\* C22 as stated: a session whose with-block was left is closed, and it is
\* committed exactly when the block finished without an exception, rolled
\* back otherwise.
C22_CommittedIffBlockFinished ==
    call.fn = "session" =>
        \A k \in Exited :
            LET s == call.sessions[k]
            IN  /\ ~s.open
                /\ s.txn = "committed" <=> s.block = "finished"
                /\ s.txn # "committed" => s.txn = "rolled_back"

\* C22, amended: a session whose with-block was left is closed and is
\* either committed or rolled back; it is committed only if the block
\* finished without an exception (the commit itself can still fail), and
\* never when the block raised; the open sessions are those whose block has
\* not been left yet.
C22_SessionsReleased ==
    call.fn = "session" =>
        /\ \A k \in Exited :
             LET s == call.sessions[k]
             IN  /\ ~s.open
                 /\ s.txn \in {"committed", "rolled_back"}
                 /\ s.txn = "committed" => s.block = "finished"
                 /\ s.block = "raised" => s.rollback_called
        /\ {k \in SessionIds : call.sessions[k].open}
             = {k \in SessionIds :
                  call.sessions[k].pc \notin {"none", "closed"}}

\* One block finished and was committed, one raised and was rolled back,
\* one finished but its commit failed; all three sessions are closed.
C22_Witness ==
    /\ call.fn = "session"
    /\ Exited = SessionIds
    /\ \E a, b, c \in SessionIds :
         /\ call.sessions[a].txn = "committed"
         /\ call.sessions[b].block = "raised"
         /\ call.sessions[c].block = "finished"
         /\ call.sessions[c].txn = "rolled_back"

\* C23: save_posts ignores duplicates: it raises no error, leaves every
\* stored row as it was, and ends with exactly one row for every id of the
\* list, whether the id was stored before, is new, or occurs twice in the
\* list; so a second call with the same list changes nothing.
C23_SavePostsIgnoresDuplicates ==
    call.fn = "save_posts" =>
        /\ ~call.raised
        /\ call.before \subseteq posts_tbl
        /\ \A pid \in Range(call.posts) :
             Cardinality({p \in posts_tbl : p.id = pid}) = 1
        /\ \A p \in posts_tbl \ call.before : p.id \in Range(call.posts)

\* The posts written into the outputs of the invocation.
WrittenIds ==
    {dig.md_stories[k].post_id : k \in DOMAIN dig.md_stories}
        \cup {dig.json_stories[k].post_id : k \in DOMAIN dig.json_stories}

\* C24: when generate or generate_both returns, the ids passed to
\* mark_posts_as_sent_in_digest are the posts whose article was written; a
\* candidate whose article generation failed is not in the output, is not
\* marked, and is still unsent.
C24_MarkedAreTheWritten ==
    (dig.kind \in {"md", "both"} /\ dig.pc = "returned") =>
        /\ dig.mark_calls = 1
        /\ Range(dig.processed_ids) = WrittenIds
        /\ digests_done[Len(digests_done)].post_ids = WrittenIds
        /\ \A pid \in CandidateIds \ WrittenIds :
              /\ RowsOf(pid, dig.project) # {}
              /\ \A row \in RowsOf(pid, dig.project) :
                    row.sent_in_digest_at = None

\* generate wrote one of its two candidates; the other one had no article.
C24_Witness ==
    /\ dig.kind = "md"
    /\ dig.pc = "returned"
    /\ Cardinality(CandidateIds) = 2
    /\ Cardinality(WrittenIds) = 1
    /\ \E pid \in CandidateIds \ WrittenIds :
          \E row \in RowsOf(pid, dig.project) : row.sent_in_digest_at = None

\* C25: the list returned by classify_posts has at most one Classification
\* per submitted post and none for an id that was not submitted, so the
\* filtered posts and the classifications have equal length and analyze does
\* not raise its mismatch error.
C25_OneClassificationPerPost ==
    (call.fn = "scan_cmd" /\ call.done) =>
        /\ \A k \in DOMAIN call.classifications :
              call.classifications[k].post_id \in Range(call.posts)
        /\ \A k, m \in DOMAIN call.classifications :
              call.classifications[k].post_id
                  = call.classifications[m].post_id => k = m
        /\ Len(call.filtered_posts) = Len(call.classifications)
        /\ ~call.mismatch

\* The post is an unsent signal post of the project the digests are for.
EligibleForDigest(pid) ==
    \E c \in SignalCandidates(posts_tbl, cls_tbl, call.project,
                              DefaultMinConfidence) : c.post.id = pid

\* The post was written into a digest of the project that returned.
IncludedInDigest(pid) ==
    \E k \in DOMAIN digests_done :
        /\ digests_done[k].project = call.project
        /\ pid \in digests_done[k].post_ids

\* C26: when digests keep being generated for a project and no post
\* arrives, every eligible post whose own article generation succeeds is
\* eventually included in a digest, also when the article generation of
\* other eligible posts fails on every attempt.
C26_EligiblePostEventuallyIncluded ==
    \A pid \in PostIds :
        (/\ call.fn = "digests"
         /\ pid \notin call.failing
         /\ EligibleForDigest(pid)) ~> IncludedInDigest(pid)

\* The step writes an output file: the stories of a format get their
\* identifiers in the step that writes the file of that format.
WritesOutput ==
    /\ dig.pc \in {"write_md", "write_json", "json_only"}
    /\ \/ dig'.md_stories # dig.md_stories
       \/ dig'.json_stories # dig.json_stories

\* C27: for any order of generate, generate_json and generate_both, no
\* invocation overwrites a file written by an earlier one: every step that
\* writes an output creates a file that did not exist.  The JSON file is
\* named {project}_{digest_id}.json, so two JSON digests of one project and
\* date with the same digest_id are one file written twice.
C27_NoOutputOverwritten ==
    [][WritesOutput => files' # files]_vars

\* C28: for the same project, limit and min_confidence and an unchanged
\* store, the candidates selected without --dry-run are the posts the dry
\* run lists, in the same order (rows that tie in score and confidence may
\* come in either order from the query).
C28_DryRunListsTheCandidates ==
    (call.fn = "digest_cmd" /\ call.ran) =>
        /\ Len(call.selected) = Len(call.preview)
        /\ call.selected \in GetSignalPostsForDigest(
                                 posts_tbl, cls_tbl, call.project, call.limit,
                                 call.min_confidence)

\* The rows the call is about: those of the given ids in the given project.
MarkTargets ==
    {row \in call.before : /\ row.post_id \in Range(call.post_ids)
                           /\ row.project = call.project}

\* C29: mark_posts_as_sent_in_digest(post_ids, project) changes only the
\* sent_in_digest_at column of the rows whose post_id is in post_ids and
\* whose project is project; rows of other projects, rows of other ids and
\* every other column stay as they were, no row is added or removed, the
\* posts are untouched, and with an empty list nothing changes.
C29_MarkFrame ==
    call.fn = "mark" =>
        /\ posts_tbl = call.posts_before
        /\ call.before \ MarkTargets = cls_tbl \ {row \in cls_tbl :
               \E t \in MarkTargets : t.id = row.id}
        /\ \A t \in MarkTargets :
              \E row \in cls_tbl :
                  /\ row.sent_in_digest_at # None
                  /\ row = [t EXCEPT !.sent_in_digest_at =
                                         row.sent_in_digest_at]
        /\ Cardinality(cls_tbl) = Cardinality(call.before)
        /\ call.post_ids = <<>> => cls_tbl = call.before

\* reddit_a has a row in both projects; the call for claudeia marked the
\* one and left the other unsent.
C29_Witness ==
    /\ call.fn = "mark"
    /\ call.project = "claudeia"
    /\ \E t \in MarkTargets : t.post_id = "reddit_a" /\ t.sent_in_digest_at = None
    /\ \E row \in cls_tbl :
         /\ row.post_id = "reddit_a" /\ row.project = "other"
         /\ row.sent_in_digest_at = None
    /\ \E row \in cls_tbl :
         /\ row.post_id = "reddit_a" /\ row.project = "claudeia"
         /\ row.sent_in_digest_at # None

\* ceil(n / b)
CeilDiv(n, b) == (n + b - 1) \div b

\* The primary requests of run r that include the post.
RequestsWith(r, pid) ==
    {q \in DOMAIN scan[r].reqs : pid \in Range(scan[r].reqs[q].ids)}

\* C30: for n posts and batch size b, classify_posts sends at most
\* ceil(n/b) + n primary requests, and every post is in at most two of
\* them: once within its batch and at most once alone, after that batch was
\* refused.
C30_RequestBound ==
    \A r \in Runs :
        LET s == scan[r]
            n == Len(s.to_classify)
        IN  /\ Len(s.reqs) <= CeilDiv(n, batch_size) + n
            /\ \A pid \in Range(s.to_classify) :
                  /\ Cardinality(RequestsWith(r, pid)) <= 2
                  /\ \A q1, q2 \in RequestsWith(r, pid) :
                        q1 < q2 => /\ s.reqs[q1].outcome = "refusal"
                                   /\ s.reqs[q2].ids = <<pid>>

\* The bound is met: a batch of two posts was refused and each post was
\* then sent alone.
C30_Witness ==
    \E r \in Runs :
        LET s == scan[r]
        IN  /\ Len(s.to_classify) = 2
            /\ batch_size = 2
            /\ Len(s.reqs) = 3
            /\ s.pc \notin {"primary", "single"}

====
